---- MODULE Spec2Model ----
(***************************************************************************)
(* The GraphVisualization React component                                  *)
(* (src/web/app/components/GraphVisualization.tsx) as a state machine.     *)
(*                                                                         *)
(* One render pass is one step: the state updates of an event handler (or  *)
(* of a resolved fetch) are committed together with the updates queued by  *)
(* the effects of the previous pass, and every effect whose dependencies   *)
(* changed in that commit runs in the same step, in source order.  State   *)
(* updates made by an effect are queued and committed by a later pass      *)
(* (Rerender, or the next event), so timers and user input may fall        *)
(* between an effect and the render it asked for.                          *)
(*                                                                         *)
(* d3 is modelled by its documented behaviour: forceSimulation(nodes)      *)
(* assigns x and y to every node when it is constructed, stop() halts the  *)
(* internal timer, restart() starts it again, a simulation cools down and  *)
(* halts by itself, and zoom keeps the current transform on the element    *)
(* the behaviour was applied to.                                           *)
(***************************************************************************)
EXTENDS Integers, Sequences, FiniteSets, TLC

VARIABLES
  focusNodeId,      \* prop focusNodeId (deep link), NoId when absent
  graphData,        \* useState graphData; gen = 0 is null
  loading,          \* useState loading
  error,            \* useState error (TRUE: a message is set)
  selectedNode,     \* useState selectedNode
  showFullContent,  \* useState showFullContent
  connectedNodes,   \* useState connectedNodes
  showLocalGraph,   \* useState showLocalGraph
  panelWidth,       \* useState panelWidth
  showSearchPanel,  \* useState showSearchPanel
  searchQuery,      \* useState searchQuery
  filteredNodes,    \* useState filteredNodes (node ids, in order)
  selectedTypes,    \* useState selectedTypes
  queue,            \* state updates made by effects, not yet rendered
  requests,         \* fetch('/api/graph') calls in flight
  loadSeq,          \* number of load requests issued so far
  svgSeq,           \* identity of the <svg> element of the main view
  simulationRef,    \* simulationRef.current: id of the newest simulation, 0 = null
  simNodes,         \* the nodes (clones) of simulationRef.current, in order
  e1Cleanup,        \* simulation the init effect's pending cleanup stops, 0 = none
  running,          \* main simulations whose internal timer is running
  layout,           \* "initial" until simulationRef.current ticked, then "relaxed"
  zoomT,            \* transform d3.zoom keeps on the current <svg>
  containerT,       \* transform attribute of the rendered zoom container
  transition,       \* zoom transition in progress on the current <svg>
  focusTimers,      \* pending tryFocus timers
  resizeTimers,     \* pending handleResize timers
  egoSims,          \* local-graph simulations that are running
  egoSeq,           \* number of local-graph simulations created so far
  drag,             \* the node of the latest drag gesture: its pin and position
  windowSize,       \* innerWidth and innerHeight of the window the page fills
  areaInset,        \* width the panels take from the graph area, as laid out
  centerForce,      \* size whose centre the newest simulation's forceCenter targets
  egoNodes,         \* egoNodes[i]: size, centre and nodesCopy of local-graph simulation i
  egoTimers,        \* pending timers of createLocalGraph: pin release, forced stop
  localSvg,         \* what createLocalGraph drew into the rendered local-graph <svg>
  highlightPapers,  \* the highlightPapers prop: ids of nodes and papers
  fill,             \* the fill of each circle of the main graph, as simNodes
  highlightDefault, \* the highlightPapers prop is omitted: every render
                    \* evaluates its default [], a new array
  mounted           \* the component is mounted

vars == <<focusNodeId, graphData, loading, error, selectedNode, showFullContent,
          connectedNodes, showLocalGraph, panelWidth, showSearchPanel,
          searchQuery, filteredNodes, selectedTypes, queue, requests, loadSeq,
          svgSeq, simulationRef, simNodes, e1Cleanup, running, layout, zoomT,
          containerT, transition, focusTimers, resizeTimers, egoSims, egoSeq,
          drag, windowSize, areaInset, centerForce, egoNodes, egoTimers,
          localSvg, highlightPapers, fill, highlightDefault,
          mounted>>

(***************************************************************************)
(* Bounds of the model.                                                    *)
(***************************************************************************)
MaxLoads == 2
MaxSims == 3
MaxEgo == 2
MaxResizeTimers == 2

(***************************************************************************)
(* Program constants.                                                      *)
(***************************************************************************)
DefaultPanelWidth == 384
FocusScaleTenths == 25
MinScaleTenths == 1
MaxScaleTenths == 40
ContentPreview == 300
MaxListed == 50
MaxSearchAttempts == 8
MaxDeepLinkAttempts == 10
EgoMargin == 25
EgoRadius == 80
SearchPanelWidth == 320
FallbackWidth == 1200
FallbackHeight == 800

(***************************************************************************)
(* Strings.  TLC cannot look inside a string, so Chars gives the           *)
(* characters of every string the model uses.                              *)
(***************************************************************************)
NoId == ""

Chars(s) ==
  CASE s = "" -> <<>>
    [] s = " " -> <<" ">>
    [] s = "a" -> <<"a">>
    [] s = "b" -> <<"b">>
    [] s = "c" -> <<"c">>
    [] s = "d" -> <<"d">>
    [] s = "zz" -> <<"z", "z">>
    [] s = "B" -> <<"B">>
    [] s = "Paper" -> <<"P", "a", "p", "e", "r">>
    [] s = "Entity" -> <<"E", "n", "t", "i", "t", "y">>
    [] s = "Result" -> <<"R", "e", "s", "u", "l", "t">>
    [] s = "Sir" -> <<"S", "i", "r">>
    [] s = "sir" -> <<"s", "i", "r">>
    [] s = "tau" -> <<"t", "a", "u">>
    [] s = "LONG" -> <<"L", "O", "N", "G">>

\* content.length; "LONG" stands for a text of 301 characters
Length(s) == IF s = "LONG" THEN ContentPreview + 1 ELSE Len(Chars(s))

ToLowerCase(cs) ==
  [i \in DOMAIN cs |->
     CASE cs[i] = "B" -> "b"
       [] cs[i] = "P" -> "p"
       [] cs[i] = "E" -> "e"
       [] cs[i] = "R" -> "r"
       [] cs[i] = "S" -> "s"
       [] cs[i] = "L" -> "l"
       [] cs[i] = "O" -> "o"
       [] cs[i] = "N" -> "n"
       [] cs[i] = "G" -> "g"
       [] OTHER -> cs[i]]

RECURSIVE TrimStart(_)
TrimStart(cs) ==
  IF cs # <<>> /\ Head(cs) = " " THEN TrimStart(Tail(cs)) ELSE cs

RECURSIVE TrimEnd(_)
TrimEnd(cs) ==
  IF cs # <<>> /\ cs[Len(cs)] = " " THEN TrimEnd(SubSeq(cs, 1, Len(cs) - 1))
  ELSE cs

\* String.prototype.trim
Trim(cs) == TrimEnd(TrimStart(cs))

\* String.prototype.includes
Includes(text, q) ==
  \E i \in 0..(Len(text) - Len(q)) : SubSeq(text, i + 1, i + Len(q)) = q

RECURSIVE Join(_)
\* Array.prototype.join(' ') of a sequence of character sequences
Join(parts) ==
  IF parts = <<>> THEN <<>>
  ELSE IF Len(parts) = 1 THEN parts[1]
  ELSE parts[1] \o <<" ">> \o Join(Tail(parts))

(***************************************************************************)
(* Graph documents the data provider may return.                           *)
(***************************************************************************)
Node(id, type, cname, paper, stmt, content) ==
  [id |-> id, type |-> type, canonical_name |-> cname, paper_id |-> paper,
   statement |-> stmt, content |-> content]

Edge(s, t) == [source |-> s, target |-> t]

\* a -> b -> c as in the spec's scenario, plus a self-loop on b, the mutual
\* edge c -> b and a parallel edge a -> b
Doc1 ==
  [nodes |-> << Node("a", "Paper", "", "", "", "LONG"),
                Node("b", "Entity", "Sir", "", "", ""),
                Node("c", "Result", "", "a", "tau", "") >>,
   edges |-> << Edge("a", "b"), Edge("b", "c"), Edge("b", "b"),
                Edge("c", "b"), Edge("a", "b") >>]

\* d is isolated and carries paper_id b; c is missing
Doc2 ==
  [nodes |-> << Node("a", "Paper", "", "", "", ""),
                Node("d", "Result", "", "b", "", ""),
                Node("b", "Paper", "", "", "", "") >>,
   edges |-> << Edge("a", "b") >>]

Docs == {Doc1, Doc2}

\* a response with no nodes and no edges: {"nodes": [], "edges": []}
EmptyDoc == [nodes |-> <<>>, edges |-> <<>>]

\* a graph with more nodes than the search panel lists: MaxListed papers
\* followed by two entities, no edges
BigIds ==
  <<
     "n01", "n02", "n03", "n04", "n05", "n06", "n07", "n08",
     "n09", "n10", "n11", "n12", "n13", "n14", "n15", "n16",
     "n17", "n18", "n19", "n20", "n21", "n22", "n23", "n24",
     "n25", "n26", "n27", "n28", "n29", "n30", "n31", "n32",
     "n33", "n34", "n35", "n36", "n37", "n38", "n39", "n40",
     "n41", "n42", "n43", "n44", "n45", "n46", "n47", "n48",
     "n49", "n50", "n51", "n52"
  >>

BigDoc ==
  [nodes |-> [i \in 1..(MaxListed + 2) |->
                Node(BigIds[i], IF i <= MaxListed THEN "Paper" ELSE "Entity",
                     "", "", "", "")],
   edges |-> <<>>]

FocusIds == {NoId, "b", "zz"}
Queries == {"", "sir", " ", "Sir", "tau", "b"}
PanelWidths == {DefaultPanelWidth, 500}

\* values of the highlightPapers prop: omitted, the id of a node that is a
\* paper_id of another, two ids
HighlightSets == {<<>>, <<"b">>, <<"c", "a">>}

NoData == [gen |-> 0, nodes |-> <<>>, edges |-> <<>>]

\* a node object: the data fields plus the identity of the object: a node of
\* graphData generation inst (origin "data") or the clone made for simulation
\* inst (origin "sim")
Obj(n, origin, inst) ==
  [id |-> n.id, content |-> n.content, origin |-> origin, inst |-> inst]

NoNode == [id |-> NoId, content |-> "", origin |-> "none", inst |-> 0]

Min(S) == CHOOSE x \in S : \A y \in S : x <= y

Max(S) == CHOOSE x \in S : \A y \in S : x >= y

\* Array.prototype.find over node records; <<>> when undefined, <<n>> otherwise
Find(nodes, I) == IF I = {} THEN <<>> ELSE <<nodes[Min(I)]>>

FindById(nodes, id) == Find(nodes, {i \in DOMAIN nodes : nodes[i].id = id})

Ids(nodes) == [i \in DOMAIN nodes |-> nodes[i].id]

Range(f) == {f[i] : i \in DOMAIN f}

(***************************************************************************)
(* findConnectedNodes: one scan of the edge list.  A connection is the id  *)
(* of the neighbour and the index of the edge in graphData.edges.          *)
(***************************************************************************)
NoConnections == [incoming |-> <<>>, outgoing |-> <<>>]

Connection(n, i) == [node |-> n.id, edge |-> i]

RECURSIVE ScanEdges(_, _, _, _)
ScanEdges(gd, nodeId, i, acc) ==
  IF i > Len(gd.edges) THEN acc
  ELSE LET edge == gd.edges[i]
       IN IF edge.target = nodeId
          THEN LET sourceNode == FindById(gd.nodes, edge.source)
               IN ScanEdges(gd, nodeId, i + 1,
                    IF sourceNode # <<>>
                    THEN [acc EXCEPT !.incoming =
                            Append(@, Connection(sourceNode[1], i))]
                    ELSE acc)
          ELSE IF edge.source = nodeId
          THEN LET targetNode == FindById(gd.nodes, edge.target)
               IN ScanEdges(gd, nodeId, i + 1,
                    IF targetNode # <<>>
                    THEN [acc EXCEPT !.outgoing =
                            Append(@, Connection(targetNode[1], i))]
                    ELSE acc)
          ELSE ScanEdges(gd, nodeId, i + 1, acc)

FindConnectedNodes(gd, nodeId) ==
  IF gd.gen = 0 THEN NoConnections ELSE ScanEdges(gd, nodeId, 1, NoConnections)

ConnCount(cn) == Len(cn.incoming) + Len(cn.outgoing)

ConnIds(cn) ==
  {cn.incoming[i].node : i \in DOMAIN cn.incoming}
    \cup {cn.outgoing[i].node : i \in DOMAIN cn.outgoing}

(***************************************************************************)
(* The node filter of the search panel.                                    *)
(***************************************************************************)
\* [id, name, canonical_name, paper_id, type, entity_type, content]
\*   .filter(Boolean).join(' ').toLowerCase(); the documents carry no name
\* and no entity_type
SearchText(node) ==
  ToLowerCase(Join(SelectSeq(
    << Chars(node.id), Chars(node.canonical_name), Chars(node.paper_id),
       Chars(node.type), Chars(node.content) >>,
    LAMBDA cs : cs # <<>>)))

\* a faulty variant: the text filter runs over all nodes of the graph
FilterNodesTextOverAll(gd, query, types) ==
  LET byType == IF Len(types) > 0
                THEN SelectSeq(gd.nodes, LAMBDA n : n.type \in Range(types))
                ELSE gd.nodes
      byText == IF Trim(Chars(query)) # <<>>
                THEN SelectSeq(gd.nodes,
                       LAMBDA n : Includes(SearchText(n), ToLowerCase(Chars(query))))
                ELSE byType
  IN Ids(byText)

FilterNodes(gd, query, types) ==
  LET byType == IF Len(types) > 0
                THEN SelectSeq(gd.nodes, LAMBDA n : n.type \in Range(types))
                ELSE gd.nodes
      byText == IF Trim(Chars(query)) # <<>>
                THEN SelectSeq(byType,
                       LAMBDA n : Includes(SearchText(n), ToLowerCase(Chars(query))))
                ELSE byType
  IN Ids(byText)

\* [...new Set(xs)]: first occurrences, in order
Distinct(xs) ==
  LET firsts == SelectSeq([i \in DOMAIN xs |-> i],
                          LAMBDA i : \A j \in 1..(i - 1) : xs[j] # xs[i])
  IN [k \in DOMAIN firsts |-> xs[firsts[k]]]

NodeTypes(gd) == Distinct([i \in DOMAIN gd.nodes |-> gd.nodes[i].type])

\* a faulty variant: the whole list is rendered
ListedAll(fn) == fn

\* "Найдено: {filteredNodes.length}"
FoundCount(fn) == Len(fn)

\* filteredNodes.slice(0, 50)
Listed(fn) == SubSeq(fn, 1, IF Len(fn) < MaxListed THEN Len(fn) ELSE MaxListed)

(***************************************************************************)
(* Zoom transforms, kept symbolically: the node the transform centres, the *)
(* scale in tenths and the expression that computed the translation.       *)
(***************************************************************************)
Identity == [node |-> NoId, scale |-> 10, form |-> "identity"]

FocusTransform(nodeId, form) ==
  [node |-> nodeId, scale |-> FocusScaleTenths, form |-> form]

NoTransition == [active |-> FALSE, to |-> Identity, zoom |-> 0, from |-> 10]

\* svg.transition().call(zoom.transform, t): an animation from the transform
\* the <svg> has now to t, emitting "zoom" to the listener of behaviour zoom
ZoomTo(s, t, zoom) ==
  [active |-> TRUE, to |-> t, zoom |-> zoom, from |-> s.zoomT.scale]

(***************************************************************************)
(* Dragging a node of the main graph.  Coordinates are symbolic: "layout"  *)
(* is where the forces put the node, a pointer is where a drag event was.  *)
(* drag describes the node object of the latest gesture (node id and the   *)
(* simulation it is a clone for): held while the button is down, its pin   *)
(* fx/fy, its position x/y, the coordinate of the latest drag event, and   *)
(* whether its simulation has ticked since that event.                     *)
(***************************************************************************)
Null == "null"

Pointers == {"p1", "p2"}

NoDrag ==
  [node |-> NoId, sim |-> 0, held |-> FALSE, fx |-> Null, x |-> "layout",
   pointer |-> "layout", ticked |-> FALSE]

(***************************************************************************)
(* The whole state as one record, so that a handler and the effects of the *)
(* render it causes compose into one step.                                 *)
(***************************************************************************)
Cur ==
  [focusNodeId |-> focusNodeId, graphData |-> graphData, loading |-> loading,
   error |-> error, selectedNode |-> selectedNode,
   showFullContent |-> showFullContent, connectedNodes |-> connectedNodes,
   showLocalGraph |-> showLocalGraph, panelWidth |-> panelWidth,
   showSearchPanel |-> showSearchPanel, searchQuery |-> searchQuery,
   filteredNodes |-> filteredNodes, selectedTypes |-> selectedTypes,
   queue |-> queue, requests |-> requests, loadSeq |-> loadSeq,
   svgSeq |-> svgSeq, simulationRef |-> simulationRef, simNodes |-> simNodes,
   e1Cleanup |-> e1Cleanup, running |-> running, layout |-> layout,
   zoomT |-> zoomT, containerT |-> containerT, transition |-> transition,
   focusTimers |-> focusTimers, resizeTimers |-> resizeTimers,
   egoSims |-> egoSims, egoSeq |-> egoSeq, drag |-> drag,
   windowSize |-> windowSize, areaInset |-> areaInset,
   centerForce |-> centerForce, egoNodes |-> egoNodes,
   egoTimers |-> egoTimers, localSvg |-> localSvg,
   highlightPapers |-> highlightPapers, fill |-> fill,
   highlightDefault |-> highlightDefault, mounted |-> mounted]

Becomes(s) ==
  /\ focusNodeId' = s.focusNodeId
  /\ graphData' = s.graphData
  /\ loading' = s.loading
  /\ error' = s.error
  /\ selectedNode' = s.selectedNode
  /\ showFullContent' = s.showFullContent
  /\ connectedNodes' = s.connectedNodes
  /\ showLocalGraph' = s.showLocalGraph
  /\ panelWidth' = s.panelWidth
  /\ showSearchPanel' = s.showSearchPanel
  /\ searchQuery' = s.searchQuery
  /\ filteredNodes' = s.filteredNodes
  /\ selectedTypes' = s.selectedTypes
  /\ queue' = s.queue
  /\ requests' = s.requests
  /\ loadSeq' = s.loadSeq
  /\ svgSeq' = s.svgSeq
  /\ simulationRef' = s.simulationRef
  /\ simNodes' = s.simNodes
  /\ e1Cleanup' = s.e1Cleanup
  /\ running' = s.running
  /\ layout' = s.layout
  /\ zoomT' = s.zoomT
  /\ containerT' = s.containerT
  /\ transition' = s.transition
  /\ focusTimers' = s.focusTimers
  /\ resizeTimers' = s.resizeTimers
  /\ egoSims' = s.egoSims
  /\ egoSeq' = s.egoSeq
  /\ drag' = s.drag
  /\ windowSize' = s.windowSize
  /\ areaInset' = s.areaInset
  /\ centerForce' = s.centerForce
  /\ egoNodes' = s.egoNodes
  /\ egoTimers' = s.egoTimers
  /\ localSvg' = s.localSvg
  /\ highlightPapers' = s.highlightPapers
  /\ fill' = s.fill
  /\ highlightDefault' = s.highlightDefault
  /\ mounted' = s.mounted

\* which of the component's four return statements renders
View(s) ==
  IF ~s.mounted THEN "unmounted"
  ELSE IF s.loading THEN "loading"
  ELSE IF s.error THEN "error"
  ELSE IF s.graphData.gen = 0 THEN "nodata"
  ELSE "main"

\* svgRef.current is set while the main view is rendered
SvgMounted(s) == View(s) = "main"

(***************************************************************************)
(* The size of the graph area.  The page fills the window; the style of    *)
(* the graph area takes the detail panel's and the search panel's width    *)
(* from it, and a change of that style is animated (transition: width      *)
(* 0.2s), so the laid-out width follows a render with a delay.             *)
(***************************************************************************)
Size(w, h) == [w |-> w, h |-> h]

NoSize == Size(0, 0)

DefaultWindow == Size(1200, 800)

WindowSizes == {DefaultWindow, Size(600, 400)}

\* the width the style of the graph area subtracts from 100%
Inset(s) ==
  (IF s.selectedNode # NoNode THEN s.panelWidth ELSE 0)
    + (IF s.showSearchPanel THEN SearchPanelWidth ELSE 0)

\* v || d
OrElse(v, d) == IF v = 0 THEN d ELSE v

\* parentContainer?.clientWidth || 1200, parentContainer?.clientHeight || 800
ClientSize(s) ==
  IF ~SvgMounted(s) THEN Size(FallbackWidth, FallbackHeight)
  ELSE Size(OrElse(Max({0, s.windowSize.w - s.areaInset}), FallbackWidth),
            OrElse(s.windowSize.h, FallbackHeight))

\* the button "Показать локальный граф" / "Скрыть граф" is rendered
CanToggleLocalGraph(s) ==
  s.selectedNode # NoNode /\ ConnCount(s.connectedNodes) > 0

\* the detail panel's local-graph <svg> (localGraphRef.current) is rendered
LocalGraphMounted(s) ==
  /\ View(s) = "main"
  /\ s.selectedNode # NoNode
  /\ s.showLocalGraph
  /\ ConnCount(s.connectedNodes) > 0

EmptyQueue ==
  [sel |-> <<>>, cn |-> <<>>, fn |-> <<>>, ld |-> FALSE, sp |-> FALSE]

\* React commits the updates the effects queued
Commit(s) ==
  [s EXCEPT
     !.selectedNode = IF s.queue.sel # <<>> THEN s.queue.sel[1] ELSE @,
     !.connectedNodes = IF s.queue.cn # <<>> THEN s.queue.cn[1] ELSE @,
     !.filteredNodes = IF s.queue.fn # <<>> THEN s.queue.fn[1] ELSE @,
     !.loading = IF s.queue.ld THEN TRUE ELSE @,
     !.error = IF s.queue.ld THEN FALSE ELSE @,
     !.showSearchPanel = IF s.queue.sp THEN TRUE ELSE @,
     !.queue = EmptyQueue]

(***************************************************************************)
(* The effects, in source order.  s0 is the state rendered before the      *)
(* commit, s1 the state rendered now, acc the state the earlier effects of *)
(* this pass left behind.                                                  *)
(***************************************************************************)
\* the <svg> of the main view is a new element whenever the main view
\* replaces another view; a new element carries no zoom state.  While no
\* <svg> is rendered there is no viewport.
Mount(s0, s1) ==
  IF SvgMounted(s1) /\ ~SvgMounted(s0)
  THEN [s1 EXCEPT !.svgSeq = @ + 1, !.zoomT = Identity,
                  !.containerT = Identity, !.transition = NoTransition,
                  !.areaInset = Inset(s1), !.fill = <<>>]
  ELSE IF ~SvgMounted(s1)
  THEN [s1 EXCEPT !.zoomT = Identity, !.containerT = Identity,
                  !.transition = NoTransition, !.areaInset = 0,
                  !.fill = <<>>]
  ELSE s1

\* this render has a new highlightPapers array, and with it a new
\* getNodeColor: the prop is omitted and its default [] is evaluated again,
\* or the page rendered the component again for new search parameters and
\* split the highlight parameter again
PropsRenewed(s0, s1) ==
  s1.highlightDefault \/ s1.focusNodeId # s0.focusNodeId

\* a faulty variant: falls back to the first node when no node matches
FindFocusTargetOrFirst(nodes, focusId) ==
  IF focusId = NoId THEN <<>>
  ELSE LET found == Find(nodes, {i \in DOMAIN nodes :
                     nodes[i].id = focusId \/ nodes[i].paper_id = focusId})
       IN IF found = <<>> /\ nodes # <<>> THEN <<nodes[1]>> ELSE found

\* nodes.find(n => n.id === focusNodeId || n.paper_id === focusNodeId)
FindFocusTarget(nodes, focusId) ==
  IF focusId = NoId THEN <<>>
  ELSE Find(nodes, {i \in DOMAIN nodes :
                     nodes[i].id = focusId \/ nodes[i].paper_id = focusId})

\* a pending tryFocus timer.  ready is the number of checks that find the
\* polled node without x and y before it has them, Never if it never has
Never == -1

\* the deep link polls the clone it found in the new simulation's nodes:
\* forceSimulation gave it x and y when it was constructed
DeepLinkTimer(nodeId, sim, el) ==
  [kind |-> "deep", node |-> nodeId, sim |-> sim, el |-> el, attempts |-> 0,
   ready |-> 0]

\* focusOnNodeFromSearch polls when the simulation has no node of that id:
\* nodeToCheck is then the node of graphData, which never gets x and y
SearchTimer(nodeId, sim, el) ==
  [kind |-> "search", node |-> nodeId, sim |-> sim, el |-> el, attempts |-> 0,
   ready |-> Never]

SelectedColour == "#ffff00"

HighlightColour == "#ffd700"

\* getNodeColor in the render of state s
GetNodeColor(s, node) ==
  IF s.selectedNode # NoNode /\ s.selectedNode.id = node.id
  THEN SelectedColour
  ELSE IF \/ node.id \in Range(s.highlightPapers)
          \/ node.paper_id \in Range(s.highlightPapers)
  THEN HighlightColour
  ELSE CASE node.type = "Paper" -> "#00ff00"
         [] node.type = "Entity" -> "#00ccff"
         [] node.type = "Result" -> "#ffaa00"
         [] node.type = "Conclusion" -> "#ff00aa"
         [] OTHER -> "#888888"

\* .attr("fill", d => getNodeColor(d)) over the circles bound to nodes
Fills(s, nodes) == [i \in DOMAIN nodes |-> GetNodeColor(s, nodes[i])]

\* the cleanup the previous run of the init effect returned: simulation.stop()
InitCleanup(acc) == [acc EXCEPT !.running = @ \ {acc.e1Cleanup}, !.e1Cleanup = 0]

\* the body of the init effect once graphData and the <svg> are there
InitBody(s1, acc) ==
  LET sim == acc.simulationRef + 1
      targetNode == FindFocusTarget(s1.graphData.nodes, s1.focusNodeId)
  IN [acc EXCEPT
        !.simulationRef = sim,
        !.simNodes = s1.graphData.nodes,
        !.fill = Fills(s1, s1.graphData.nodes),
        !.running = @ \cup {sim},
        !.layout = "initial",
        !.containerT = Identity,
        !.centerForce = ClientSize(acc),
        !.e1Cleanup = sim,
        !.queue.sel = IF targetNode # <<>>
                      THEN <<Obj(targetNode[1], "sim", sim)>> ELSE @,
        !.focusTimers = IF targetNode # <<>>
                        THEN @ \cup {DeepLinkTimer(targetNode[1].id, sim, acc.svgSeq)}
                        ELSE @]

\* useEffect(..., [graphData, focusNodeId, getNodeColor, getNodeSize, selectedNode]);
\* getNodeColor is useCallback(..., [selectedNode, highlightPapers])
InitEffect(s0, s1, acc) ==
  IF /\ s1.graphData = s0.graphData
     /\ s1.selectedNode = s0.selectedNode
     /\ ~PropsRenewed(s0, s1)
  THEN acc
  ELSE IF s1.graphData.gen = 0 \/ ~SvgMounted(s1)
  THEN InitCleanup(acc)
  ELSE InitBody(s1, InitCleanup(acc))

\* useEffect(..., [selectedNode, getNodeColor, getNodeSize]): every circle of
\* the main <svg> gets the colour of its node again
ColourEffect(s0, s1, acc) ==
  IF \/ s1.selectedNode = s0.selectedNode /\ ~PropsRenewed(s0, s1)
     \/ ~SvgMounted(s1)
  THEN acc
  ELSE [acc EXCEPT !.fill = Fills(s1, SubSeq(acc.simNodes, 1, Len(@)))]

\* useEffect(..., [focusNodeId, highlightPapers, openSearch]) after the first
\* render: the props the page passes keep their identity, the default [] of
\* an omitted highlightPapers does not; the effect calls loadGraphData and
\* opens the search panel for a deep link
LoadEffect(s0, s1, acc) ==
  IF ~PropsRenewed(s0, s1) THEN acc
  ELSE [acc EXCEPT !.queue.ld = TRUE,
                   !.queue.sp = @ \/ s1.focusNodeId # NoId,
                   !.loadSeq = @ + 1,
                   !.requests = @ \cup {acc.loadSeq + 1}]

\* a faulty variant: leaves the list alone when no filter is set
FilterEffectSkippingNoFilter(s0, s1, acc) ==
  IF /\ s1.graphData = s0.graphData
     /\ s1.searchQuery = s0.searchQuery
     /\ s1.selectedTypes = s0.selectedTypes
  THEN acc
  ELSE IF s1.graphData.gen = 0 THEN acc
  ELSE IF s1.searchQuery = "" /\ s1.selectedTypes = <<>> /\ s0.graphData.gen # 0
  THEN acc
  ELSE [acc EXCEPT !.queue.fn =
          <<FilterNodes(s1.graphData, s1.searchQuery, s1.selectedTypes)>>]

\* useEffect(..., [graphData, searchQuery, selectedTypes])
FilterEffect(s0, s1, acc) ==
  IF /\ s1.graphData = s0.graphData
     /\ s1.searchQuery = s0.searchQuery
     /\ s1.selectedTypes = s0.selectedTypes
  THEN acc
  ELSE IF s1.graphData.gen = 0 THEN acc
  ELSE [acc EXCEPT !.queue.fn =
          <<FilterNodes(s1.graphData, s1.searchQuery, s1.selectedTypes)>>]

\* a faulty variant: adds the connections found to the lists it already has
ConnectedEffectAccumulating(s0, s1, acc) ==
  IF s1.graphData = s0.graphData /\ s1.selectedNode = s0.selectedNode
  THEN acc
  ELSE LET found == FindConnectedNodes(s1.graphData, s1.selectedNode.id)
       IN [acc EXCEPT !.queue.cn =
             IF s1.selectedNode # NoNode
             THEN <<[incoming |-> s1.connectedNodes.incoming \o found.incoming,
                     outgoing |-> s1.connectedNodes.outgoing \o found.outgoing]>>
             ELSE <<NoConnections>>]

\* useEffect(..., [selectedNode, graphData, findConnectedNodes])
ConnectedEffect(s0, s1, acc) ==
  IF s1.graphData = s0.graphData /\ s1.selectedNode = s0.selectedNode
  THEN acc
  ELSE [acc EXCEPT !.queue.cn =
          IF s1.selectedNode # NoNode
          THEN <<FindConnectedNodes(s1.graphData, s1.selectedNode.id)>>
          ELSE <<NoConnections>>]

(***************************************************************************)
(* createLocalGraph.  The local graph is drawn into the <svg> of the       *)
(* detail panel; its simulation runs over nodesCopy, one object per entry  *)
(* of localNodes.  Coordinates are whole units of the viewBox.             *)
(***************************************************************************)
EgoSim(id, center) == [id |-> id, center |-> center]

\* fx = null, fy = null
Unpinned == -1

\* the local-graph <svg> is not rendered; rendered and still empty; the
\* single node with the caption "Нет связей"; the graph of simulation ego
NoLocalSvg == [kind |-> "none", ego |-> 0]

EmptyLocalSvg == [kind |-> "empty", ego |-> 0]

SingleNodeSvg == [kind |-> "single", ego |-> 0]

LocalGraphSvg(ego) == [kind |-> "graph", ego |-> ego]

\* width = Math.max(280, panelWidth - 40),
\* height = Math.max(250, Math.min(400, panelWidth * 0.6))
LocalSize(pw) ==
  Size(Max({280, pw - 40}), Max({250, Min({400, (pw * 6) \div 10})}))

\* [selectedNode, ...incoming.map(c => c.node), ...outgoing.map(c => c.node)]:
\* the id of each object, and which object it is
LocalNodes(s) ==
  <<[id |-> s.selectedNode.id, obj |-> "selectedNode"]>>
    \o [i \in DOMAIN s.connectedNodes.incoming |->
          [id |-> s.connectedNodes.incoming[i].node, obj |-> "graphData"]]
    \o [i \in DOMAIN s.connectedNodes.outgoing |->
          [id |-> s.connectedNodes.outgoing[i].node, obj |-> "graphData"]]

\* Math.cos(angle) * radius and Math.sin(angle) * radius for
\* angle = i * 2 * Math.PI / k, rounded to whole units
OnCircle(i, k) ==
  CASE k = 1 -> <<EgoRadius, 0>>
    [] k = 2 -> IF i = 1 THEN <<-EgoRadius, 0>> ELSE <<EgoRadius, 0>>
    [] k = 3 -> IF i = 1 THEN <<-40, 69>>
                ELSE IF i = 2 THEN <<-40, -69>> ELSE <<EgoRadius, 0>>
    [] k = 4 -> IF i = 1 THEN <<0, EgoRadius>>
                ELSE IF i = 2 THEN <<-EgoRadius, 0>>
                ELSE IF i = 3 THEN <<0, -EgoRadius>> ELSE <<EgoRadius, 0>>
    [] k = 5 -> IF i = 1 THEN <<25, 76>>
                ELSE IF i = 2 THEN <<-65, 47>>
                ELSE IF i = 3 THEN <<-65, -47>>
                ELSE IF i = 4 THEN <<25, -76>> ELSE <<EgoRadius, 0>>

\* a faulty variant: the simulation runs over the objects of localNodes
SharedNode(d, i, k, selectedId, size) ==
  IF d.id = selectedId
  THEN [id |-> d.id, x |-> size.w \div 2, y |-> size.h \div 2,
        fx |-> size.w \div 2, fy |-> size.h \div 2, of |-> d.obj]
  ELSE [id |-> d.id, x |-> size.w \div 2 + OnCircle(i, k)[1],
        y |-> size.h \div 2 + OnCircle(i, k)[2],
        fx |-> Unpinned, fy |-> Unpinned, of |-> d.obj]

\* one element of nodesCopy: {...d, x, y, vx, vy} and, for an object with the
\* id of the selected node, fx and fy.  i is the index of d in localNodes
\* counted from 0, k is localNodes.length - 1; "of" is the object d3 writes
\* to when it moves the element: the copy
ClonedNode(d, i, k, selectedId, size) ==
  IF d.id = selectedId
  THEN [id |-> d.id, x |-> size.w \div 2, y |-> size.h \div 2,
        fx |-> size.w \div 2, fy |-> size.h \div 2, of |-> "copy"]
  ELSE [id |-> d.id, x |-> size.w \div 2 + OnCircle(i, k)[1],
        y |-> size.h \div 2 + OnCircle(i, k)[2],
        fx |-> Unpinned, fy |-> Unpinned, of |-> "copy"]

NodesCopy(localNodes, selectedId, size) ==
  [j \in DOMAIN localNodes |->
     ClonedNode(localNodes[j], j - 1, Len(localNodes) - 1, selectedId, size)]

\* localEdges.map(d => ({...d})): the links of the simulation are copies of
\* the edge objects of connectedNodes, which are edges of graphData
LinksCopy(cn) ==
  [i \in DOMAIN cn.incoming |-> [edge |-> cn.incoming[i].edge, of |-> "copy"]]
    \o [i \in DOMAIN cn.outgoing |->
          [edge |-> cn.outgoing[i].edge, of |-> "copy"]]

\* d3.forceLink replaces source and target of each of its links by the node
\* objects and numbers the link: the edges among edges that are such links
LinkedBy(edges, links) ==
  [k \in DOMAIN edges |->
     LET I == {i \in DOMAIN links :
                 links[i].of = "graphData" /\ links[i].edge = k}
     IN IF I = {} THEN edges[k]
        ELSE [source |-> <<edges[k].source>>, target |-> <<edges[k].target>>,
              index |-> Max(I) - 1]]

\* the object n after d3 wrote the position and pin of element e to it
Moved(n, e) ==
  [f \in DOMAIN n \cup {"x", "y", "fx", "fy"} |->
     IF f = "x" THEN e.x ELSE IF f = "y" THEN e.y
     ELSE IF f = "fx" THEN e.fx ELSE IF f = "fy" THEN e.fy ELSE n[f]]

\* the objects among nodes that are elements of the simulation, as the
\* simulation left them
WrittenBy(nodes, elements, objs) ==
  [j \in DOMAIN nodes |->
     LET I == {i \in DOMAIN elements :
                 elements[i].of \in objs /\ elements[i].id = nodes[j].id}
     IN IF I = {} THEN nodes[j] ELSE Moved(nodes[j], elements[Min(I)])]

\* what the simulation ego wrote is visible in every object it runs over:
\* selectedNode is a node of graphData or of a main simulation, the
\* neighbours are nodes of graphData
EgoStore(s, ego) ==
  LET elements == s.egoNodes[ego].nodes
      ofData == IF s.selectedNode.origin = "data"
                THEN {"selectedNode", "graphData"} ELSE {"graphData"}
      ofSim == IF /\ s.selectedNode.origin = "sim"
                  /\ s.selectedNode.inst = s.simulationRef
               THEN {"selectedNode"} ELSE {}
  IN [s EXCEPT !.graphData.nodes = WrittenBy(@, elements, ofData),
               !.simNodes = WrittenBy(@, elements, ofSim)]

\* setTimeout(..., 1000) and setTimeout(..., 8000)
EgoTimersOf(ego) ==
  {[kind |-> "release", ego |-> ego], [kind |-> "stop", ego |-> ego]}

CreateLocalGraph(s1, acc) ==
  IF s1.selectedNode = NoNode \/ ~LocalGraphMounted(s1) \/ ~s1.showLocalGraph
  THEN acc
  ELSE IF Len(LocalNodes(s1)) <= 1
  THEN [acc EXCEPT !.localSvg = SingleNodeSvg]
  ELSE LET ego == acc.egoSeq + 1
           size == LocalSize(s1.panelWidth)
       IN EgoStore(
            [acc EXCEPT
               !.egoSeq = ego,
               !.egoSims = @ \cup {EgoSim(ego, s1.selectedNode.id)},
               !.egoNodes = Append(@,
                  [size |-> size, center |-> s1.selectedNode.id,
                   nodes |-> NodesCopy(LocalNodes(s1), s1.selectedNode.id,
                                       size)]),
               !.egoTimers = @ \cup EgoTimersOf(ego),
               !.graphData.edges = LinkedBy(@, LinksCopy(s1.connectedNodes)),
               !.localSvg = LocalGraphSvg(ego)],
            ego)

\* useEffect(..., [connectedNodes, showLocalGraph, selectedNode, panelWidth,
\* createLocalGraph]); every setConnectedNodes installs a new object, and
\* createLocalGraph is new whenever getNodeColor is
LocalGraphEffect(s0, s1, acc) ==
  IF /\ s0.queue.cn = <<>>
     /\ s1.showLocalGraph = s0.showLocalGraph
     /\ s1.selectedNode = s0.selectedNode
     /\ s1.panelWidth = s0.panelWidth
     /\ ~PropsRenewed(s0, s1)
  THEN acc
  ELSE IF s1.showLocalGraph THEN CreateLocalGraph(s1, acc) ELSE acc

\* the <svg> of the local graph is rendered with the detail panel while
\* showLocalGraph is set and there are connections: a new, empty element
\* whenever it appears
MountLocal(s0, s1, acc) ==
  IF ~LocalGraphMounted(s1) THEN [acc EXCEPT !.localSvg = NoLocalSvg]
  ELSE IF ~LocalGraphMounted(s0) THEN [acc EXCEPT !.localSvg = EmptyLocalSvg]
  ELSE acc

Render(s0, s1) ==
  LocalGraphEffect(s0, s1,
    ConnectedEffect(s0, s1,
      FilterEffect(s0, s1,
        LoadEffect(s0, s1,
          ColourEffect(s0, s1,
            InitEffect(s0, s1, MountLocal(s0, s1, Mount(s0, s1))))))))

WithinBounds(s) ==
  /\ s.simulationRef <= MaxSims
  /\ s.egoSeq <= MaxEgo
  /\ s.loadSeq <= MaxLoads
  /\ s.resizeTimers <= MaxResizeTimers

\* garbage collection: the elements of a local-graph simulation that has
\* stopped, whose timers have run and whose drawing has been removed are
\* referred to by nothing
Collected(s) ==
  [s EXCEPT !.egoNodes =
     [i \in DOMAIN @ |->
        IF \/ \E e \in s.egoSims : e.id = i
           \/ \E timer \in s.egoTimers : timer.ego = i
           \/ s.localSvg = LocalGraphSvg(i)
        THEN @[i] ELSE [@[i] EXCEPT !.nodes = <<>>]]]

\* s is what a handler made of the committed state Commit(Cur); React
\* renders its updates and runs the effects
Pass(s) ==
  \E s2 \in {Collected(Render(Cur, s))} : WithinBounds(s2) /\ Becomes(s2)

\* the state after the render that commits what the effects of s queued
Rendered(s) == Render(s, Commit(s))

\* a callback that sets no React state
Direct(s) == \E s2 \in {Collected(s)} : WithinBounds(s2) /\ Becomes(s2)

(***************************************************************************)
(* The state after the first render and its effects: the init effect       *)
(* returned early, the mount effect called loadGraphData (its setLoading   *)
(* is queued, the fetch is in flight), the connections effect queued the   *)
(* empty network.                                                          *)
(***************************************************************************)
Opened(focus) ==
  [focusNodeId |-> focus, graphData |-> NoData, loading |-> FALSE,
   error |-> FALSE, selectedNode |-> NoNode, showFullContent |-> FALSE,
   connectedNodes |-> NoConnections, showLocalGraph |-> FALSE,
   panelWidth |-> DefaultPanelWidth, showSearchPanel |-> FALSE,
   searchQuery |-> "", filteredNodes |-> <<>>, selectedTypes |-> <<>>,
   queue |-> [EmptyQueue EXCEPT !.cn = <<NoConnections>>, !.ld = TRUE,
                                !.sp = (focus # NoId)],
   requests |-> {1}, loadSeq |-> 1, svgSeq |-> 0, simulationRef |-> 0,
   simNodes |-> <<>>, e1Cleanup |-> 0, running |-> {}, layout |-> "initial",
   zoomT |-> Identity, containerT |-> Identity, transition |-> NoTransition,
   focusTimers |-> {}, resizeTimers |-> 0, egoSims |-> {}, egoSeq |-> 0,
   drag |-> NoDrag, windowSize |-> DefaultWindow, areaInset |-> 0,
   centerForce |-> NoSize, egoNodes |-> <<>>, egoTimers |-> {},
   localSvg |-> NoLocalSvg, highlightPapers |-> <<>>, fill |-> <<>>,
   highlightDefault |-> FALSE, mounted |-> TRUE]

\* the variables hold the state s
Is(s) ==
  /\ focusNodeId = s.focusNodeId
  /\ graphData = s.graphData
  /\ loading = s.loading
  /\ error = s.error
  /\ selectedNode = s.selectedNode
  /\ showFullContent = s.showFullContent
  /\ connectedNodes = s.connectedNodes
  /\ showLocalGraph = s.showLocalGraph
  /\ panelWidth = s.panelWidth
  /\ showSearchPanel = s.showSearchPanel
  /\ searchQuery = s.searchQuery
  /\ filteredNodes = s.filteredNodes
  /\ selectedTypes = s.selectedTypes
  /\ queue = s.queue
  /\ requests = s.requests
  /\ loadSeq = s.loadSeq
  /\ svgSeq = s.svgSeq
  /\ simulationRef = s.simulationRef
  /\ simNodes = s.simNodes
  /\ e1Cleanup = s.e1Cleanup
  /\ running = s.running
  /\ layout = s.layout
  /\ zoomT = s.zoomT
  /\ containerT = s.containerT
  /\ transition = s.transition
  /\ focusTimers = s.focusTimers
  /\ resizeTimers = s.resizeTimers
  /\ egoSims = s.egoSims
  /\ egoSeq = s.egoSeq
  /\ drag = s.drag
  /\ windowSize = s.windowSize
  /\ areaInset = s.areaInset
  /\ centerForce = s.centerForce
  /\ egoNodes = s.egoNodes
  /\ egoTimers = s.egoTimers
  /\ localSvg = s.localSvg
  /\ highlightPapers = s.highlightPapers
  /\ fill = s.fill
  /\ highlightDefault = s.highlightDefault
  /\ mounted = s.mounted

Init == \E focus \in FocusIds : Is(Opened(focus))

(***************************************************************************)
(* Event handlers, as functions of the state.                              *)
(***************************************************************************)
\* loadGraphData up to the await
LoadGraphData(s) ==
  [s EXCEPT !.loading = TRUE, !.error = FALSE, !.loadSeq = @ + 1,
            !.requests = @ \cup {s.loadSeq + 1}]

\* loadGraphData after the await, response ok
LoadResolved(s, r, doc) ==
  [s EXCEPT !.graphData = [gen |-> r, nodes |-> doc.nodes, edges |-> doc.edges],
            !.loading = FALSE, !.requests = @ \ {r}]

\* a faulty variant: the failure is swallowed, no error is recorded
LoadRejectedSilently(s, r) ==
  [s EXCEPT !.loading = FALSE, !.requests = @ \ {r}]

\* loadGraphData after the await, fetch rejected or response not ok
LoadRejected(s, r) ==
  [s EXCEPT !.error = TRUE, !.loading = FALSE, !.requests = @ \ {r}]

\* the click handler of a circle of the main graph; d is a simulation node
CircleClick(s, d) ==
  [s EXCEPT !.selectedNode = Obj(d, "sim", s.simulationRef),
            !.showFullContent = FALSE,
            !.showLocalGraph = FALSE,
            !.transition = ZoomTo(s, FocusTransform(d.id, "centre of captured size"),
                                  s.simulationRef)]

\* a faulty variant: selects and focuses, and leaves the view flags alone
FocusOnNodeFromSearchKeepingFlags(s, nodeId) ==
  IF s.graphData.gen = 0 \/ ~SvgMounted(s) THEN s
  ELSE LET targetNode == FindById(s.graphData.nodes, nodeId)
           simulationNode == FindById(s.simNodes, nodeId)
       IN IF targetNode = <<>> \/ s.simulationRef = 0 THEN s
          ELSE [s EXCEPT
                  !.selectedNode = Obj(targetNode[1], "data", s.graphData.gen),
                  !.transition =
                     IF simulationNode # <<>>
                     THEN ZoomTo(s, FocusTransform(nodeId, "centre of current size"),
                                 s.simulationRef)
                     ELSE @]

FocusOnNodeFromSearch(s, nodeId) ==
  IF s.graphData.gen = 0 \/ ~SvgMounted(s) THEN s
  ELSE LET targetNode == FindById(s.graphData.nodes, nodeId)
           simulationNode == FindById(s.simNodes, nodeId)
       IN IF targetNode = <<>> \/ s.simulationRef = 0 THEN s
          ELSE [s EXCEPT
                  !.selectedNode = Obj(targetNode[1], "data", s.graphData.gen),
                  !.showFullContent = FALSE,
                  !.showLocalGraph = FALSE,
                  !.transition =
                     IF simulationNode # <<>>
                     THEN ZoomTo(s, FocusTransform(nodeId, "centre of current size"),
                                 s.simulationRef)
                     ELSE @,
                  !.focusTimers =
                     IF simulationNode # <<>> THEN @
                     ELSE @ \cup {SearchTimer(nodeId, s.simulationRef, s.svgSeq)}]

FocusOnNode(s, nodeId) ==
  LET node == FindById(s.graphData.nodes, nodeId)
      simulationNode == FindById(s.simNodes, nodeId)
  IN IF node = <<>> \/ ~SvgMounted(s) \/ s.simulationRef = 0 THEN s
     ELSE [s EXCEPT
             !.transition =
                IF simulationNode # <<>>
                THEN ZoomTo(s, FocusTransform(nodeId, "centre 960,540"),
                            s.simulationRef)
                ELSE @,
             !.selectedNode = Obj(node[1], "data", s.graphData.gen),
             !.showFullContent = FALSE,
             !.showLocalGraph = FALSE]

\* the close button of the detail panel
CloseDetailPanel(s) ==
  [s EXCEPT !.selectedNode = NoNode, !.showFullContent = FALSE,
            !.showLocalGraph = FALSE]

ToggleTypeFilter(s, type) ==
  [s EXCEPT !.selectedTypes =
     IF type \in Range(@) THEN SelectSeq(@, LAMBDA x : x # type)
     ELSE Append(@, type)]

ClearAllFilters(s) == [s EXCEPT !.searchQuery = "", !.selectedTypes = <<>>]

ResetZoom(s) ==
  IF SvgMounted(s) /\ s.simulationRef # 0
  THEN [s EXCEPT !.transition = ZoomTo(s, Identity, s.simulationRef)]
  ELSE s

\* scaleExtent([0.1, 4])
ClampScale(k) ==
  IF k < MinScaleTenths THEN MinScaleTenths
  ELSE IF k > MaxScaleTenths THEN MaxScaleTenths ELSE k

\* a wheel or drag gesture on the <svg>: interrupts the transition, sets the
\* transform and emits "zoom" to the listener of the current behaviour
ZoomGesture(s, k) ==
  LET t == [node |-> NoId, scale |-> ClampScale(k), form |-> "gesture"]
  IN [s EXCEPT !.transition = NoTransition, !.zoomT = t, !.containerT = t]


\* the scales a frame of the animation may show.  The interpolator of a zoom
\* transition (d3.interpolateZoom) pans along a path that zooms out on the
\* way, the further the longer the way: a frame's scale lies between the two
\* ends or below both, and zoom.transform does not apply scaleExtent.  One
\* scale below both ends (rounded down to tenths) stands for all of them.
FrameScales(tr) ==
  {Max({0, Min({tr.from, tr.to.scale}) - 1}),
   Min({tr.from, tr.to.scale}), Max({tr.from, tr.to.scale})}

\* a frame of a zoom transition: the behaviour that started it sets the
\* transform of the <svg> and emits "zoom" to its own listener
TransitionFrameAt(s, k) ==
  LET t == [node |-> NoId, scale |-> k, form |-> "frame"]
  IN [s EXCEPT !.zoomT = t,
               !.containerT = IF s.transition.zoom = s.simulationRef
                              THEN t ELSE @]

\* a zoom transition reaches its end: the behaviour that started it keeps the
\* transform on the <svg> and emits "zoom" to its own listener
EndTransition(s) ==
  [s EXCEPT !.zoomT = s.transition.to,
            !.containerT = IF s.transition.zoom = s.simulationRef
                           THEN s.transition.to ELSE @,
            !.transition = NoTransition]

\* does the node a tryFocus timer polls have x and y at this check
HasPosition(timer) == timer.ready # Never /\ timer.attempts >= timer.ready

MaxAttempts(timer) ==
  IF timer.kind = "deep" THEN MaxDeepLinkAttempts ELSE MaxSearchAttempts

\* focusOnTargetNode of the deep link: the zoom behaviour and the size of
\* the effect run that set the timer; performFocus of the search path: the
\* behaviour in zoomBehaviorRef and the size at the time of the call
FocusRequest(s, timer) ==
  IF timer.kind = "deep"
  THEN ZoomTo(s, FocusTransform(timer.node, "offset, then scale"), timer.sim)
  ELSE ZoomTo(s, FocusTransform(timer.node, "centre of current size"),
              s.simulationRef)

\* a faulty variant: polls once more than the limit
TryFocusOnceMore(s, timer) ==
  LET rest == s.focusTimers \ {timer}
  IN IF HasPosition(timer)
     THEN [s EXCEPT
             !.focusTimers = rest,
             !.transition =
                IF SvgMounted(s) /\ timer.el = s.svgSeq
                THEN FocusRequest(s, timer) ELSE @]
     ELSE IF timer.attempts + 1 <= MaxAttempts(timer)
     THEN [s EXCEPT !.focusTimers =
             rest \cup {[timer EXCEPT !.attempts = @ + 1]}]
     ELSE [s EXCEPT !.focusTimers = rest]

\* tryFocus, both copies
TryFocus(s, timer) ==
  LET rest == s.focusTimers \ {timer}
  IN IF HasPosition(timer)
     THEN [s EXCEPT
             !.focusTimers = rest,
             !.transition =
                IF SvgMounted(s) /\ timer.el = s.svgSeq
                THEN FocusRequest(s, timer) ELSE @]
     ELSE IF timer.attempts + 1 < MaxAttempts(timer)
     THEN [s EXCEPT !.focusTimers =
             rest \cup {[timer EXCEPT !.attempts = @ + 1]}]
     ELSE [s EXCEPT !.focusTimers = rest]

\* drag "start" on the node d of the rendered simulation: the simulation is
\* restarted and the node pinned where it is; the event's coordinate is the
\* node's position
DragStarted(s, d) ==
  LET x == IF s.drag.node = d.id /\ s.drag.sim = s.simulationRef
           THEN s.drag.x ELSE "layout"
  IN [s EXCEPT !.running = @ \cup {s.simulationRef},
               !.drag = [node |-> d.id, sim |-> s.simulationRef, held |-> TRUE,
                         fx |-> x, x |-> x, pointer |-> x, ticked |-> FALSE]]

\* drag "drag": the pin follows the pointer
Dragged(s, p) ==
  [s EXCEPT !.drag.fx = p, !.drag.pointer = p, !.drag.ticked = FALSE]

\* drag "end": the pin is released
DragEnded(s) ==
  [s EXCEPT !.drag.fx = Null, !.drag.held = FALSE, !.drag.ticked = FALSE]

\* a faulty variant: the tick integrates a pinned node like any other
TickIgnoringPins(s, sim) ==
  [s EXCEPT !.layout = IF sim = s.simulationRef /\ s.simNodes # <<>>
                       THEN "relaxed" ELSE @,
            !.drag.x = IF sim = s.drag.sim THEN "layout" ELSE @,
            !.drag.ticked = IF sim = s.drag.sim THEN TRUE ELSE @]

\* one tick of a running main simulation: d3 moves its nodes, a node with
\* fx and fy is put at its pin; the "tick" listener draws them
Tick(s, sim) ==
  [s EXCEPT !.layout = IF sim = s.simulationRef /\ s.simNodes # <<>>
                       THEN "relaxed" ELSE @,
            !.drag.x = IF sim = s.drag.sim
                       THEN (IF s.drag.fx # Null THEN s.drag.fx ELSE "layout")
                       ELSE @,
            !.drag.ticked = IF sim = s.drag.sim THEN TRUE ELSE @]

\* where the forces of one tick would put a free node: "out" is beyond the
\* low edge in x and beyond the high edge in y, "in" is 0 (or NaN, both
\* falsy) in x and inside the panel in y
EgoPushes == {"out", "in"}

Pushed(push, axis, dim) ==
  CASE push = "out" /\ axis = "x" -> -30
    [] push = "out" /\ axis = "y" -> dim + 30
    [] push = "in" /\ axis = "x" -> 0
    [] push = "in" /\ axis = "y" -> dim \div 2 + 10

\* a faulty variant: the position is left where the forces put it
Unclamped(v, dim) == v

\* Math.max(25, Math.min(width - 25, d.x || width/2))
Clamped(v, dim) == Max({EgoMargin, Min({dim - EgoMargin, OrElse(v, dim \div 2)})})

\* one tick of local simulation ego: d3 puts an element with fx, fy at its
\* pin and moves the others, then the "tick" listener clamps every element
EgoTick(s, ego, push) ==
  LET g == s.egoNodes[ego]
      ticked == [j \in DOMAIN g.nodes |->
                   LET n == g.nodes[j]
                   IN [n EXCEPT
                         !.x = Clamped(IF n.fx # Unpinned THEN n.fx
                                       ELSE Pushed(push, "x", g.size.w), g.size.w),
                         !.y = Clamped(IF n.fy # Unpinned THEN n.fy
                                       ELSE Pushed(push, "y", g.size.h), g.size.h)]]
  IN EgoStore([s EXCEPT !.egoNodes[ego].nodes = ticked], ego)

\* the 1 s timer: nodesCopy.find(n => n.id === selectedNode.id) loses its pin
ReleasePin(s, ego) ==
  LET g == s.egoNodes[ego]
      I == {j \in DOMAIN g.nodes : g.nodes[j].id = g.center}
  IN EgoStore(
       [s EXCEPT
          !.egoTimers = @ \ {[kind |-> "release", ego |-> ego]},
          !.egoNodes[ego].nodes =
             IF I = {} THEN @
             ELSE [@ EXCEPT ![Min(I)] =
                     [@ EXCEPT !.fx = Unpinned, !.fy = Unpinned]]],
       ego)

\* a faulty variant: the timer is spent and the simulation goes on
ForcedStopIgnored(s, ego) ==
  [s EXCEPT !.egoTimers = @ \ {[kind |-> "stop", ego |-> ego]}]

\* the 8 s timer: localSimulation.stop()
ForcedStop(s, ego) ==
  [s EXCEPT !.egoTimers = @ \ {[kind |-> "stop", ego |-> ego]},
            !.egoSims = {e \in @ : e.id # ego}]

\* the delayed callback of handleResize
ResizeCallback(s) ==
  [s EXCEPT !.resizeTimers = @ - 1,
            !.centerForce = IF s.simulationRef # 0 THEN ClientSize(s) ELSE @,
            !.running = IF s.simulationRef # 0
                        THEN @ \cup {s.simulationRef} ELSE @]

(***************************************************************************)
(* Actions.                                                                *)
(***************************************************************************)
Rerender == queue # EmptyQueue /\ Pass(Commit(Cur))

\* the continuation of loadGraphData in a component that was unmounted in
\* the meantime: React ignores its state updates
SetStateIgnored(r) == Direct([Cur EXCEPT !.requests = @ \ {r}])

LoadSuccess ==
  \E r \in requests, doc \in Docs :
    /\ ~queue.ld
    /\ IF mounted THEN Pass(LoadResolved(Commit(Cur), r, doc))
       ELSE SetStateIgnored(r)

\* the response is the graph without nodes
LoadSuccessEmpty ==
  \E r \in requests :
    /\ ~queue.ld
    /\ IF mounted THEN Pass(LoadResolved(Commit(Cur), r, EmptyDoc))
       ELSE SetStateIgnored(r)

LoadFailure ==
  \E r \in requests :
    /\ ~queue.ld
    /\ IF mounted THEN Pass(LoadRejected(Commit(Cur), r))
       ELSE SetStateIgnored(r)

Reload == View(Cur) = "main" /\ Pass(LoadGraphData(Commit(Cur)))

Retry == View(Cur) = "error" /\ Pass(LoadGraphData(Commit(Cur)))

ClickNode ==
  \E i \in DOMAIN simNodes :
    View(Cur) = "main" /\ Pass(CircleClick(Commit(Cur), simNodes[i]))

ClickSearchResult ==
  \E i \in DOMAIN Listed(filteredNodes) :
    /\ View(Cur) = "main"
    /\ showSearchPanel
    /\ Pass(FocusOnNodeFromSearch(Commit(Cur), filteredNodes[i]))

\* a button of the connection lists
ClickConnection ==
  \E id \in ConnIds(connectedNodes) :
    /\ View(Cur) = "main"
    /\ selectedNode # NoNode
    /\ Pass(FocusOnNode(Commit(Cur), id))

CloseDetail ==
  View(Cur) = "main" /\ selectedNode # NoNode /\ Pass(CloseDetailPanel(Commit(Cur)))

ToggleLocalGraph ==
  /\ View(Cur) = "main"
  /\ CanToggleLocalGraph(Cur)
  /\ Pass([Commit(Cur) EXCEPT !.showLocalGraph = ~showLocalGraph])

ToggleFullContent ==
  /\ View(Cur) = "main"
  /\ selectedNode # NoNode
  /\ Length(selectedNode.content) > ContentPreview
  /\ Pass([Commit(Cur) EXCEPT !.showFullContent = ~showFullContent])

ResizePanel ==
  \E w \in PanelWidths :
    /\ View(Cur) = "main"
    /\ selectedNode # NoNode
    /\ Pass([Commit(Cur) EXCEPT !.panelWidth = w])

ToggleSearchPanel ==
  /\ View(Cur) = "main"
  /\ Pass([Commit(Cur) EXCEPT !.showSearchPanel = ~showSearchPanel])

TypeQuery ==
  \E q \in Queries :
    /\ View(Cur) = "main"
    /\ showSearchPanel
    /\ Pass([Commit(Cur) EXCEPT !.searchQuery = q])

ToggleType ==
  \E i \in DOMAIN NodeTypes(graphData) :
    /\ View(Cur) = "main"
    /\ showSearchPanel
    /\ Pass(ToggleTypeFilter(Commit(Cur), NodeTypes(graphData)[i]))

SelectAllTypes ==
  /\ View(Cur) = "main"
  /\ showSearchPanel
  /\ Pass([Commit(Cur) EXCEPT !.selectedTypes = NodeTypes(graphData)])

SelectNoTypes ==
  /\ View(Cur) = "main"
  /\ showSearchPanel
  /\ Pass([Commit(Cur) EXCEPT !.selectedTypes = <<>>])

ClearFilters ==
  /\ View(Cur) = "main"
  /\ showSearchPanel
  /\ searchQuery # "" \/ Len(selectedTypes) > 0
  /\ Pass(ClearAllFilters(Commit(Cur)))

ResetView == View(Cur) = "main" /\ Direct(ResetZoom(Cur))

UserZoom ==
  \E k \in {0, 50} : View(Cur) = "main" /\ Direct(ZoomGesture(Cur, k))

TransitionFrame ==
  \E k \in FrameScales(transition) :
    transition.active /\ Direct(TransitionFrameAt(Cur, k))

TransitionEnd == transition.active /\ Direct(EndTransition(Cur))

FocusTimerFires == \E timer \in focusTimers : Direct(TryFocus(Cur, timer))

\* the page is left: React removes the component, runs the cleanup of every
\* effect (the init effect's stops its simulation, the resize effect's
\* removes the listener), drops the updates not yet rendered and detaches
\* the DOM; nothing clears the timers that are pending
Unmounted(s) ==
  [InitCleanup(s) EXCEPT !.mounted = FALSE, !.queue = EmptyQueue,
                         !.zoomT = Identity, !.containerT = Identity,
                         !.transition = NoTransition, !.areaInset = 0,
                         !.fill = <<>>, !.localSvg = NoLocalSvg]

Unmount == mounted /\ Direct(Unmounted(Cur))

\* the search parameters of the page change (history navigation, a link to
\* the page itself): the page renders the component, which stays mounted,
\* with another focusNodeId
Navigate ==
  \E focus \in FocusIds \ {focusNodeId} :
    mounted /\ Pass([Commit(Cur) EXCEPT !.focusNodeId = focus])

\* the user resizes the window, which fires "resize": handleResize
WindowResize ==
  \E size \in WindowSizes \ {windowSize} :
    Direct([Cur EXCEPT
              !.windowSize = size,
              !.resizeTimers = IF graphData.gen # 0 /\ SvgMounted(Cur)
                               THEN @ + 1 ELSE @])

\* the animation of the graph area's width has run to its end
LayoutSettles ==
  /\ SvgMounted(Cur)
  /\ areaInset # Inset(Cur)
  /\ Direct([Cur EXCEPT !.areaInset = Inset(Cur)])

ResizeTimerFires == resizeTimers > 0 /\ Direct(ResizeCallback(Cur))

\* a tick of a running simulation moves its nodes
SimTick == \E sim \in running : Direct(Tick(Cur, sim))

\* the drag behaviour of the node groups of the rendered graph
DragStart ==
  \E i \in DOMAIN simNodes :
    View(Cur) = "main" /\ ~drag.held /\ Direct(DragStarted(Cur, simNodes[i]))

DragMove == \E p \in Pointers : drag.held /\ Direct(Dragged(Cur, p))

DragEnd == drag.held /\ Direct(DragEnded(Cur))

\* alpha fell below alphaMin: the simulation halts by itself
SimCoolsDown ==
  \E sim \in running : Direct([Cur EXCEPT !.running = @ \ {sim}])

\* timers run in the order they fall due: of two timers of one delay the
\* one set first, of the two timers of one simulation the pin release
Earlier(other, timer) ==
  \/ other.ego < timer.ego /\ other.kind = timer.kind
  \/ other.ego <= timer.ego /\ other.kind = "release" /\ timer.kind = "stop"

Due(timer) ==
  /\ timer \in egoTimers
  /\ \A other \in egoTimers : ~Earlier(other, timer)

\* the 1 s timer of a local-graph simulation
EgoPinRelease ==
  \E ego \in 1..egoSeq :
    /\ Due([kind |-> "release", ego |-> ego])
    /\ Direct(ReleasePin(Cur, ego))

\* the 8 s timer of a local-graph simulation: localSimulation.stop()
EgoTimeout ==
  \E ego \in 1..egoSeq :
    /\ Due([kind |-> "stop", ego |-> ego])
    /\ Direct(ForcedStop(Cur, ego))

\* a tick of a running local-graph simulation
EgoSimTick ==
  \E ego \in egoSims, push \in EgoPushes : Direct(EgoTick(Cur, ego.id, push))

\* alpha of a local-graph simulation fell below alphaMin: it halts by itself
EgoCoolsDown ==
  \E ego \in egoSims : Direct([Cur EXCEPT !.egoSims = @ \ {ego}])

\* a click on the circle of a neighbour in the local graph
ClickEgoNode ==
  \E i \in DOMAIN egoNodes :
    \E j \in DOMAIN egoNodes[i].nodes :
      /\ View(Cur) = "main"
      /\ localSvg = LocalGraphSvg(i)
      /\ egoNodes[i].nodes[j].id # egoNodes[i].center
      /\ Pass(FocusOnNode(Commit(Cur), egoNodes[i].nodes[j].id))

Next ==
  \/ Rerender
  \/ LoadSuccess
  \/ LoadSuccessEmpty
  \/ LoadFailure
  \/ Reload
  \/ Retry
  \/ ClickNode
  \/ ClickSearchResult
  \/ ClickConnection
  \/ CloseDetail
  \/ ToggleLocalGraph
  \/ ToggleFullContent
  \/ ResizePanel
  \/ ToggleSearchPanel
  \/ TypeQuery
  \/ ToggleType
  \/ SelectAllTypes
  \/ SelectNoTypes
  \/ ClearFilters
  \/ ResetView
  \/ UserZoom
  \/ TransitionEnd
  \/ FocusTimerFires
  \/ WindowResize
  \/ ResizeTimerFires
  \/ SimTick
  \/ SimCoolsDown
  \/ EgoTimeout
  \/ DragStart
  \/ DragMove
  \/ DragEnd
  \/ TransitionFrame
  \/ LayoutSettles
  \/ EgoPinRelease
  \/ EgoSimTick
  \/ EgoCoolsDown
  \/ ClickEgoNode
  \/ Unmount
  \/ Navigate

Spec == Init /\ [][Next]_vars

(***************************************************************************)
(* The component by concern, each over the same state and the same         *)
(* actions.  SpecFocus: loading, reloading, the deep link, the focus       *)
(* timers and the selection entry points.  SpecLifecycle: loading, the     *)
(* deep link and its timers, clicks on the canvas, closing the panel,      *)
(* window resizes and the ticks of the main simulation.                    *)
(* SpecSelection: a page opened without a deep link; selection, the detail *)
(* panel, the search panel and the local graph.                            *)
(***************************************************************************)
NextFocus ==
  \/ Rerender
  \/ LoadSuccess
  \/ LoadFailure
  \/ Reload
  \/ Retry
  \/ ClickNode
  \/ ClickSearchResult
  \/ ClickConnection
  \/ TransitionEnd
  \/ FocusTimerFires

SpecFocus == Init /\ [][NextFocus]_vars

NextLifecycle ==
  \/ Rerender
  \/ LoadSuccess
  \/ LoadFailure
  \/ Reload
  \/ Retry
  \/ ClickNode
  \/ CloseDetail
  \/ TransitionEnd
  \/ FocusTimerFires
  \/ WindowResize
  \/ ResizeTimerFires
  \/ SimTick

SpecLifecycle == Init /\ [][NextLifecycle]_vars

InitSelection == Init /\ focusNodeId = NoId

NextSelection ==
  \/ Rerender
  \/ LoadSuccess
  \/ Reload
  \/ ClickNode
  \/ ClickSearchResult
  \/ ClickConnection
  \/ CloseDetail
  \/ ToggleLocalGraph
  \/ ToggleFullContent
  \/ ToggleSearchPanel
  \/ EgoPinRelease
  \/ EgoTimeout

SpecSelection == InitSelection /\ [][NextSelection]_vars

(***************************************************************************)
(* The polling loop of tryFocus by itself.  With d3 the polled clone has a *)
(* position at the first check and the search path finds every node of the *)
(* graph in the simulation, so in the component no loop makes a second     *)
(* check.  SpecPolling starts the loop, on either path, for a node that    *)
(* acquires its position after any number of checks or never: the graph    *)
(* was loaded and one tryFocus timer is pending.                           *)
(***************************************************************************)
\* the first load returned doc and was rendered
FirstLoad(focus, doc) ==
  Render(Opened(focus), LoadResolved(Commit(Opened(focus)), 1, doc))

Readiness == {Never} \cup 0..MaxDeepLinkAttempts

PollingStart(kind, ready) ==
  IF kind = "deep"
  THEN [FirstLoad("b", Doc1) EXCEPT
          !.focusTimers = {[DeepLinkTimer("b", 1, 1) EXCEPT !.ready = ready]}]
  ELSE [Rendered(FirstLoad(NoId, Doc1)) EXCEPT
          !.focusTimers = {[SearchTimer("b", 1, 1) EXCEPT !.ready = ready]}]

InitPolling ==
  \E kind \in {"deep", "search"}, ready \in Readiness :
    Is(PollingStart(kind, ready))

NextPolling ==
  \/ Rerender
  \/ FocusTimerFires
  \/ TransitionEnd
  \/ UserZoom

SpecPolling == InitPolling /\ [][NextPolling]_vars

(***************************************************************************)
(* SpecDrag: dragging the nodes of the main graph while its simulation     *)
(* ticks, cools down and is re-created by renders and clicks.              *)
(***************************************************************************)
NextDrag ==
  \/ Rerender
  \/ LoadSuccess
  \/ ClickNode
  \/ SimTick
  \/ SimCoolsDown
  \/ DragStart
  \/ DragMove
  \/ DragEnd

SpecDrag == Init /\ [][NextDrag]_vars

(***************************************************************************)
(* SpecViewport: the zoom transform under gestures, view resets, the focus *)
(* requests of every entry point and the frames of their animations.       *)
(***************************************************************************)
NextViewport ==
  \/ Rerender
  \/ LoadSuccess
  \/ ClickNode
  \/ ClickSearchResult
  \/ ClickConnection
  \/ ResetView
  \/ UserZoom
  \/ TransitionFrame
  \/ TransitionEnd
  \/ FocusTimerFires

SpecViewport == Init /\ [][NextViewport]_vars

(***************************************************************************)
(* SpecFilter: the search panel of a page opened without a deep link: the  *)
(* query, the type buttons, select all, select none and clear filters,     *)
(* over each graph and across a reload.                                    *)
(***************************************************************************)
NextFilter ==
  \/ Rerender
  \/ LoadSuccess
  \/ Reload
  \/ ToggleSearchPanel
  \/ TypeQuery
  \/ ToggleType
  \/ SelectAllTypes
  \/ SelectNoTypes
  \/ ClearFilters

SpecFilter == InitSelection /\ [][NextFilter]_vars

(***************************************************************************)
(* SpecList: the search panel over a graph of more than MaxListed nodes:   *)
(* the first load returned BigDoc and was rendered; the type buttons       *)
(* narrow the list to MaxListed nodes, to two, or leave all of them.  A    *)
(* reload returns one of the small graphs.                                 *)
(***************************************************************************)
InitList == Is(Rendered(FirstLoad(NoId, BigDoc)))

NextList ==
  \/ Rerender
  \/ LoadSuccess
  \/ Reload
  \/ ToggleSearchPanel
  \/ ToggleType
  \/ SelectAllTypes
  \/ SelectNoTypes

SpecList == InitList /\ [][NextList]_vars

(***************************************************************************)
(* SpecResize: the size of the graph area of a page opened without a deep  *)
(* link: the window is resized, the detail panel opens, closes and is      *)
(* resized, the search panel opens and closes, and the delayed callbacks   *)
(* of handleResize run.                                                    *)
(***************************************************************************)
NextResize ==
  \/ Rerender
  \/ LoadSuccess
  \/ ClickNode
  \/ CloseDetail
  \/ ToggleSearchPanel
  \/ ResizePanel
  \/ WindowResize
  \/ ResizeTimerFires
  \/ LayoutSettles
  \/ SimCoolsDown

SpecResize == InitSelection /\ [][NextResize]_vars

(***************************************************************************)
(* SpecHighlight: a page opened without a deep link and with any of the    *)
(* highlight sets, which opens the search panel when the set is not empty  *)
(* (the mount effect); nodes are selected on the canvas and deselected.    *)
(***************************************************************************)
InitHighlight ==
  \E hl \in HighlightSets :
    Is([Opened(NoId) EXCEPT !.highlightPapers = hl,
                            !.queue.sp = (Len(hl) > 0)])

NextHighlight ==
  \/ Rerender
  \/ LoadSuccess
  \/ Reload
  \/ ClickNode
  \/ CloseDetail
  \/ ToggleSearchPanel

SpecHighlight == InitHighlight /\ [][NextHighlight]_vars

(***************************************************************************)
(* SpecEmpty: the page, with or without a deep link, when the server has   *)
(* no nodes: every load that succeeds brings the empty graph.              *)
(***************************************************************************)
NextEmpty ==
  \/ Rerender
  \/ LoadSuccessEmpty
  \/ LoadFailure
  \/ Reload
  \/ Retry
  \/ ToggleSearchPanel
  \/ TypeQuery
  \/ WindowResize
  \/ ResizeTimerFires
  \/ UserZoom
  \/ SimTick
  \/ SimCoolsDown

SpecEmpty == Init /\ [][NextEmpty]_vars

(***************************************************************************)
(* SpecDeepLink: a page opened with or without a deep link and left alone: *)
(* the graph arrives, React renders what the effects queued, the timers of *)
(* the deep link fire, transitions end, the simulations tick and cool down.*)
(***************************************************************************)
NextDeepLink ==
  \/ Rerender
  \/ LoadSuccess
  \/ FocusTimerFires
  \/ TransitionEnd
  \/ SimTick
  \/ SimCoolsDown

SpecDeepLink == Init /\ [][NextDeepLink]_vars

(***************************************************************************)
(* SpecTeardown: a page that is opened, used and left, with the window     *)
(* resized at any time; the timers and the simulations go on afterwards.   *)
(***************************************************************************)
NextTeardown ==
  \/ Rerender
  \/ LoadSuccess
  \/ LoadFailure
  \/ ClickNode
  \/ WindowResize
  \/ ResizeTimerFires
  \/ FocusTimerFires
  \/ SimTick
  \/ SimCoolsDown
  \/ Unmount

SpecTeardown == Init /\ [][NextTeardown]_vars

(***************************************************************************)
(* SpecOverlap: requests for the graph that overlap.  The reload button is *)
(* rendered only while nothing loads; a second request starts while the    *)
(* first is in flight when the search parameters of the page change.       *)
(***************************************************************************)
NextOverlap ==
  \/ Rerender
  \/ LoadSuccess
  \/ LoadFailure
  \/ Reload
  \/ Retry
  \/ Navigate

SpecOverlap == Init /\ [][NextOverlap]_vars

(***************************************************************************)
(* SpecLoads: the requests for the graph, of a page that passes the        *)
(* highlightPapers prop and of a component mounted without it.             *)
(***************************************************************************)
InitLoads ==
  \E focus \in FocusIds, omitted \in BOOLEAN :
    Is([Opened(focus) EXCEPT !.highlightDefault = omitted])

NextLoads ==
  \/ Rerender
  \/ LoadSuccess
  \/ LoadFailure
  \/ Reload
  \/ Retry
  \/ ClickNode
  \/ CloseDetail

SpecLoads == InitLoads /\ [][NextLoads]_vars

(***************************************************************************)
(* SpecEgo: the local graph of a page opened without a deep link: nodes    *)
(* are selected on the canvas and in the local graph, the local graph is   *)
(* opened and closed, and its simulations tick, lose their pin, cool down  *)
(* and are stopped.  SpecEgoBudget: the life of the local-graph            *)
(* simulations without their ticks: they are created by opening the local  *)
(* graph, and the timers of the browser fire: a timer that is due is       *)
(* eventually run by the event loop (weak fairness of the two timers).     *)
(***************************************************************************)
NextEgo ==
  \/ Rerender
  \/ LoadSuccess
  \/ ClickNode
  \/ CloseDetail
  \/ ToggleLocalGraph
  \/ ClickEgoNode
  \/ EgoSimTick
  \/ EgoCoolsDown
  \/ EgoPinRelease
  \/ EgoTimeout

SpecEgo == InitSelection /\ [][NextEgo]_vars

NextEgoBudget ==
  \/ Rerender
  \/ LoadSuccess
  \/ ClickNode
  \/ CloseDetail
  \/ ToggleLocalGraph
  \/ EgoCoolsDown
  \/ EgoPinRelease
  \/ EgoTimeout

SpecEgoBudget ==
  /\ InitSelection
  /\ [][NextEgoBudget]_vars
  /\ WF_vars(EgoPinRelease)
  /\ WF_vars(EgoTimeout)

(***************************************************************************)
(* Properties.                                                             *)
(***************************************************************************)
\* every update an effect queued has been rendered
Settled == queue = EmptyQueue

EdgeIndexes(gd) == [i \in 1..Len(gd.edges) |-> i]

\* the ego network as the specification defines it: every edge into n with
\* its source, every edge out of n with its target, in edge order
EgoNetwork(gd, n) ==
  LET into == SelectSeq(EdgeIndexes(gd), LAMBDA i : gd.edges[i].target = n)
      outOf == SelectSeq(EdgeIndexes(gd), LAMBDA i : gd.edges[i].source = n)
  IN [incoming |-> [k \in DOMAIN into |->
                      [node |-> gd.edges[into[k]].source, edge |-> into[k]]],
      outgoing |-> [k \in DOMAIN outOf |->
                      [node |-> gd.edges[outOf[k]].target, edge |-> outOf[k]]]]

\* C1: once selecting a node of the loaded graph has settled, connectedNodes
\* is exactly its ego network: incoming lists every edge whose target is the
\* node, outgoing every edge whose source is the node, and nothing else.
C1_EgoNetworkExact ==
  (/\ Settled
   /\ View(Cur) = "main"
   /\ selectedNode # NoNode
   /\ FindById(graphData.nodes, selectedNode.id) # <<>>)
    => connectedNodes = EgoNetwork(graphData, selectedNode.id)

\* C3: a local-graph simulation runs only while a node is selected, the
\* local-graph flag is on and the simulation's centre is the selected node.
C3_EgoOnlyForSelection ==
  \A ego \in egoSims :
    selectedNode # NoNode /\ showLocalGraph /\ ego.center = selectedNode.id

\* C4: at most one local-graph simulation is running at any time.
C4_OneEgoSimulation == Cardinality(egoSims) <= 1

\* C2: a focus timer that was scheduled before the user clicked the selected
\* node never starts a zoom toward another node: the click cancelled it.
C2_NewSelectionCancelsRetry ==
  [][\A timer \in focusTimers :
       (/\ focusTimers' = focusTimers \ {timer}
        /\ transition' # transition
        /\ transition'.active
        /\ selectedNode.origin = "sim"
        /\ selectedNode.inst >= timer.sim)
         => transition'.to.node = selectedNode.id]_vars

\* C5: at most one main simulation is running at any time.
C5_OneMainSimulation == Cardinality(running) <= 1

\* C6: the step that installs a newly loaded graph leaves the selection and
\* the ego network empty, the query empty, no type active and the viewport
\* at the identity.
C6_LoadResetsState ==
  [][graphData'.gen # graphData.gen
       => /\ selectedNode' = NoNode
          /\ connectedNodes' = NoConnections
          /\ searchQuery' = ""
          /\ selectedTypes' = <<>>
          /\ zoomT' = Identity]_vars

\* C7: a step that changes the selection and not the graph leaves the main
\* simulation (its instance, whether it runs) and the node positions as
\* they were.
C7_SelectionKeepsSimulation ==
  [][(selectedNode' # selectedNode /\ graphData' = graphData)
       => /\ simulationRef' = simulationRef
          /\ running' = running
          /\ layout' = layout]_vars

\* the state once React has rendered the updates a handler left in s
After(s) == Render(Cur, s)

\* the selection protocol carried out on node n: n is selected, both view
\* flags are off and a zoom toward n at the focus scale was started with the
\* zoom behaviour of the rendered graph
Selects(s, n) ==
  /\ s.selectedNode.id = n.id
  /\ s.selectedNode.content = n.content
  /\ ~s.showFullContent
  /\ ~s.showLocalGraph
  /\ s.transition.active
  /\ s.transition.to.node = n.id
  /\ s.transition.to.scale = FocusScaleTenths
  /\ s.transition.zoom = simulationRef

\* two states carry the same selection, flags and focus request
SameProtocol(a, b) ==
  /\ a.selectedNode.id = b.selectedNode.id
  /\ a.selectedNode.content = b.selectedNode.content
  /\ a.showFullContent = b.showFullContent
  /\ a.showLocalGraph = b.showLocalGraph
  /\ a.transition.active = b.transition.active
  /\ a.transition.to.node = b.transition.to.node
  /\ a.transition.to.scale = b.transition.to.scale
  /\ a.transition.zoom = b.transition.zoom

\* C8: in every state of the main view, each selection entry point (circle
\* click, search-result click, connection or local-graph neighbour click)
\* carries out the selection protocol on every node of the graph it offers,
\* and a search-result click and a circle click on the same node leave the
\* same selection, flags and focus request.
C8_SameSelectionProtocol ==
  View(Cur) = "main" =>
    /\ \A i \in DOMAIN simNodes :
         Selects(After(CircleClick(Commit(Cur), simNodes[i])), simNodes[i])
    /\ \A n \in Range(graphData.nodes) :
         /\ (showSearchPanel /\ n.id \in Range(Listed(filteredNodes)))
              => Selects(After(FocusOnNodeFromSearch(Commit(Cur), n.id)), n)
         /\ (selectedNode # NoNode /\ n.id \in ConnIds(connectedNodes))
              => Selects(After(FocusOnNode(Commit(Cur), n.id)), n)
    /\ \A i \in DOMAIN simNodes :
         (showSearchPanel /\ simNodes[i].id \in Range(Listed(filteredNodes)))
           => SameProtocol(
                After(CircleClick(Commit(Cur), simNodes[i])),
                After(FocusOnNodeFromSearch(Commit(Cur), simNodes[i].id)))

\* C8 happened: a search-result click selected a while the local graph of
\* the earlier selection b was open (its simulation still runs): the flag is
\* off and a zoom toward a was started
C8_Witness ==
  /\ selectedNode.id = "a"
  /\ selectedNode.origin = "data"
  /\ \E ego \in egoSims : ego.center = "b"
  /\ ~showLocalGraph
  /\ ~showFullContent
  /\ transition.active
  /\ transition.to = FocusTransform("a", "centre of current size")

\* selecting the selected node n again keeps the ego network and starts a
\* zoom toward n
KeepsEgoNetwork(s, n) ==
  /\ s.selectedNode.id = n
  /\ s.transition.active
  /\ s.transition.to.node = n
  /\ s.connectedNodes = connectedNodes
  /\ Rendered(s).connectedNodes = connectedNodes

\* C9: when a selection has settled, selecting the selected node again, by
\* any entry point that offers it, leaves incoming and outgoing equal to what
\* they were, also after the render of the recomputed network, and starts a
\* zoom toward the node.
C9_ReselectKeepsEgoNetwork ==
  (Settled /\ View(Cur) = "main" /\ selectedNode # NoNode) =>
    /\ \A i \in DOMAIN simNodes :
         simNodes[i].id = selectedNode.id
           => KeepsEgoNetwork(After(CircleClick(Commit(Cur), simNodes[i])),
                              selectedNode.id)
    /\ (showSearchPanel /\ selectedNode.id \in Range(Listed(filteredNodes)))
         => KeepsEgoNetwork(
              After(FocusOnNodeFromSearch(Commit(Cur), selectedNode.id)),
              selectedNode.id)
    /\ selectedNode.id \in ConnIds(connectedNodes)
         => KeepsEgoNetwork(After(FocusOnNode(Commit(Cur), selectedNode.id)),
                            selectedNode.id)

\* C9 happened: b was selected and its network rendered, then the circle of
\* b was clicked again (the clone of the second simulation is selected and a
\* third simulation exists): the network is still that of b and a zoom
\* toward b is under way
C9_Witness ==
  /\ loadSeq = 1
  /\ simulationRef = 3
  /\ selectedNode.id = "b"
  /\ selectedNode.origin = "sim"
  /\ selectedNode.inst = 2
  /\ ConnCount(connectedNodes) > 0
  /\ connectedNodes = FindConnectedNodes(graphData, "b")
  /\ transition.active
  /\ transition.to.node = "b"

AllIds == {"a", "b", "c", "d", "zz"}

CheckLimit(kind) == IF kind = "deep" THEN 10 ELSE 8

\* the check the timer is about to make finds the node without a position
FindsNoPosition(timer) == timer.ready = Never \/ timer.attempts < timer.ready

\* C11: a pending tryFocus timer has made fewer checks than the limit of its
\* path (10 on the deep-link path, 8 on the search path), so no request makes
\* more checks than that; a check that finds no position leaves the viewport
\* transform and the transition alone and either schedules the next check or,
\* when it was the last one allowed, leaves no timer of the request pending.
C11_BoundedPolling ==
  [][/\ \A timer \in focusTimers' : timer.attempts + 1 <= CheckLimit(timer.kind)
     /\ \A timer \in focusTimers :
          (timer \notin focusTimers' /\ FindsNoPosition(timer))
            => /\ zoomT' = zoomT
               /\ containerT' = containerT
               /\ transition' = transition
               /\ IF timer.attempts + 1 < CheckLimit(timer.kind)
                  THEN focusTimers' =
                         (focusTimers \ {timer})
                           \cup {[timer EXCEPT !.attempts = @ + 1]}
                  ELSE focusTimers' = focusTimers \ {timer}]_vars

\* C11 happened: a request whose node never gets a position has made every
\* check but the last one allowed on its path, and the viewport is where it
\* was when the request was made
C11_Witness ==
  \E timer \in focusTimers :
    /\ timer.ready = Never
    /\ timer.attempts + 1 = CheckLimit(timer.kind)
    /\ ~transition.active
    /\ zoomT = Identity

\* C12: the drag "end" event leaves the node without a pin and at the
\* coordinate of the latest drag event, whatever the ticks in between.
C12_DragEndsAtPointer ==
  [][(drag.held /\ ~drag'.held)
       => (drag'.fx = Null /\ drag'.x = drag.pointer)]_vars

\* C13: the node has a pin exactly while it is being dragged, the pin is the
\* coordinate of the latest drag event, and once its simulation has ticked
\* after that event the node is at its pin.
C13_PinnedWhileDragged ==
  /\ drag.fx # Null <=> drag.held
  /\ drag.fx # Null => drag.fx = drag.pointer
  /\ (drag.fx # Null /\ drag.ticked) => drag.x = drag.fx

\* C13 happened: a node of the rendered simulation is held at the second
\* pointer coordinate after an earlier move, and a tick has put it there
C13_Witness ==
  /\ drag.held
  /\ drag.sim = simulationRef
  /\ drag.ticked
  /\ drag.fx = "p2"
  /\ drag.x = "p2"

\* the scale, in tenths, lies in [0.1, 4.0]
InExtent(k) == 1 <= k /\ k <= 40

\* C14: in every state the scale of the viewport transform, as d3 keeps it
\* and as the zoom container shows it, lies in [0.1, 4.0].
C14_ScaleInExtent == InExtent(zoomT.scale) /\ InExtent(containerT.scale)

\* the translation was computed as (width/2 - 2.5 x, height/2 - 2.5 y) from
\* the size of the graph area; no action of SpecViewport resizes the window,
\* so the size an effect run captured is taken for the current one
CentresOnSize(t) ==
  t.form \in {"centre of current size", "centre of captured size"}

\* C15: when a focus animation completes, the transform it reached was
\* computed from the position the target node has in the simulation that is
\* live then, and puts it at the centre of the graph area at scale 2.5.
C15_FocusCentresNode ==
  [][(/\ transition.active
      /\ ~transition'.active
      /\ zoomT' = transition.to
      /\ transition.to.scale = 25)
       => (/\ CentresOnSize(transition.to)
           /\ transition.zoom = simulationRef)]_vars

\* the list the search panel shows once the render the filter effect asked
\* for has happened
FilteredSettled == IF queue.fn = <<>> THEN filteredNodes ELSE queue.fn[1]

\* C16: for a loaded graph, when the query is empty and no type is active the
\* filtered list is the graph's node list (as soon as the filter effect's
\* update is rendered), whatever edits led to that filter state.
C16_NoFilterListsAll ==
  (graphData.gen # 0 /\ searchQuery = "" /\ selectedTypes = <<>>)
    => /\ FilteredSettled = Ids(graphData.nodes)
       /\ Len(FilteredSettled) = Len(graphData.nodes)

\* C16 happened: the filters were cleared while the list was narrowed: the
\* panel still shows the narrowed list and the effect has queued the full one
C16_Witness ==
  /\ graphData.gen # 0
  /\ searchQuery = ""
  /\ selectedTypes = <<>>
  /\ filteredNodes # <<>>
  /\ Len(filteredNodes) < Len(graphData.nodes)
  /\ queue.fn = <<Ids(graphData.nodes)>>

\* the searchable text as the specification lists it: id, name,
\* canonicalName, statement, type, entityType, content (the documents carry
\* no name and no entityType)
SpecifiedText(node) ==
  ToLowerCase(Join(SelectSeq(
    << Chars(node.id), Chars(node.canonical_name), Chars(node.statement),
       Chars(node.type), Chars(node.content) >>,
    LAMBDA cs : cs # <<>>)))

\* C17: with a non-empty query and no type active, the filtered list holds
\* exactly the nodes whose specified text contains the lower-cased query.
C17_TextFilterFields ==
  (graphData.gen # 0 /\ searchQuery # "" /\ selectedTypes = <<>>)
    => FilteredSettled =
         Ids(SelectSeq(graphData.nodes,
               LAMBDA n : Includes(SpecifiedText(n),
                                   ToLowerCase(Chars(searchQuery)))))

PassesType(n) == selectedTypes = <<>> \/ n.type \in Range(selectedTypes)

\* the text test of the filter effect: a query that is empty after trimming
\* passes every node
PassesText(n) ==
  \/ Trim(Chars(searchQuery)) = <<>>
  \/ Includes(SearchText(n), ToLowerCase(Chars(searchQuery)))

\* C18: the filtered list is the sub-list, in node order, of the nodes that
\* pass the type filter (no type active, or the node's type among the active
\* ones) and the text filter; it is a function of the graph, the query and
\* the set of active types, not of the order of the edits.
C18_FiltersConjunctive ==
  graphData.gen # 0
    => FilteredSettled =
         Ids(SelectSeq(graphData.nodes, LAMBDA n : PassesType(n) /\ PassesText(n)))

\* C18 happened: Result was activated before Entity and the query typed in
\* between or after; of the two nodes the type filter passes, the text
\* filter passes b alone
C18_Witness ==
  /\ Settled
  /\ graphData.nodes = Doc1.nodes
  /\ selectedTypes = <<"Result", "Entity">>
  /\ searchQuery = "Sir"
  /\ filteredNodes = <<"b">>

\* C19: the search panel renders the first min(50, n) of the n filtered
\* nodes, in order, so never more than 50, and the count it displays is n.
C19_ListCapped ==
  LET n == Len(filteredNodes)
      shown == Listed(filteredNodes)
  IN /\ Len(shown) = (IF n < 50 THEN n ELSE 50)
     /\ Len(shown) <= 50
     /\ \A i \in DOMAIN shown : shown[i] = filteredNodes[i]
     /\ FoundCount(filteredNodes) = n

\* C19 happened: the panel is open over a list of more than 50 filtered
\* nodes and shows 50 of them
C19_Witness ==
  /\ View(Cur) = "main"
  /\ showSearchPanel
  /\ Len(selectedTypes) = 2
  /\ Len(filteredNodes) > 50
  /\ Len(Listed(filteredNodes)) = 50

\* no graph has been loaded and no main simulation exists
NothingLoaded ==
  /\ graphData.gen = 0
  /\ simulationRef = 0
  /\ running = {}
  /\ simNodes = <<>>

\* C20: while no load has succeeded graphData is null and no main simulation
\* exists; a load that fails then leaves the error view (message and retry
\* button) rendered, still without graph or simulation; the load that
\* succeeds after it renders the main view with the error cleared and
\* creates the simulation.
C20_FailedLoadBlocks ==
  [][/\ graphData.gen = 0 => NothingLoaded
     /\ graphData'.gen = 0 => NothingLoaded'
     /\ (/\ graphData.gen = 0
         /\ requests' # requests /\ requests' \subseteq requests
         /\ graphData' = graphData)
          => (error' /\ ~loading' /\ View(Cur)' = "error" /\ NothingLoaded')
     /\ (View(Cur) = "error" /\ graphData.gen = 0 /\ loadSeq' # loadSeq)
          => (~error' /\ loading' /\ requests' = {loadSeq'} /\ NothingLoaded')
     /\ (graphData.gen = 0 /\ graphData'.gen # 0)
          => (/\ ~error' /\ ~loading'
              /\ View(Cur)' = "main"
              /\ simulationRef' # 0
              /\ simulationRef' \in running')]_vars

\* C20 happened: the first load failed, the retry succeeded, and the main
\* view shows the graph of the second request with its simulation running
C20_Witness ==
  /\ loadSeq = 2
  /\ graphData.gen = 2
  /\ View(Cur) = "main"
  /\ ~error
  /\ simulationRef # 0
  /\ simulationRef \in running

\* the graph area as it is laid out
AreaSize(s) == Size(Max({0, s.windowSize.w - s.areaInset}), s.windowSize.h)

\* C21: once the graph area has its new size and nothing is pending (no
\* queued update, no resize callback, no width animation), the centring
\* force of the simulation targets the centre of that size, whatever changed
\* the size: the window, the detail panel or the search panel.
C21_ResizeRecentres ==
  (/\ View(Cur) = "main"
   /\ simulationRef # 0
   /\ Settled
   /\ resizeTimers = 0
   /\ areaInset = Inset(Cur))
    => centerForce = AreaSize(Cur)

\* C22: resize handling is debounced: a resize event that arrives while the
\* callback of an earlier one is still pending (less than 100 ms after it)
\* replaces it, so a burst leaves one callback to run, never two.
C22_ResizeDebounced == resizeTimers <= 1

\* the elements of nodesCopy that stand for the selected node
CentreElements(g) == {j \in DOMAIN g.nodes : g.nodes[j].id = g.center}

\* C23: in every local-graph simulation the selected node is pinned at the
\* centre of the panel, and is there, for as long as the release timer is
\* pending; once the timer has fired it has no pin on either axis, for good.
C23_CentrePinnedUntilReleased ==
  \A i \in DOMAIN egoNodes :
    LET g == egoNodes[i]
    IN \A j \in CentreElements(g) :
         IF [kind |-> "release", ego |-> i] \in egoTimers
         THEN /\ g.nodes[j].fx = g.size.w \div 2
              /\ g.nodes[j].fy = g.size.h \div 2
              /\ g.nodes[j].x = g.size.w \div 2
              /\ g.nodes[j].y = g.size.h \div 2
         ELSE g.nodes[j].fx = Unpinned /\ g.nodes[j].fy = Unpinned

\* C24: every node of every local-graph simulation is inside the panel the
\* simulation was created for, 25 units from each edge, when it is placed
\* and after every tick.
C24_EgoNodesInBounds ==
  \A i \in DOMAIN egoNodes :
    \A j \in DOMAIN egoNodes[i].nodes :
      LET n == egoNodes[i].nodes[j]
          size == egoNodes[i].size
      IN /\ 25 <= n.x /\ n.x <= size.w - 25
         /\ 25 <= n.y /\ n.y <= size.h - 25

\* C24 happened: a tick pushed a free node out of the panel on both axes and
\* left it on the margins, with the pinned node at the centre
C24_Witness ==
  \E i \in DOMAIN egoNodes :
    /\ [kind |-> "release", ego |-> i] \in egoTimers
    /\ \E j \in DOMAIN egoNodes[i].nodes :
         /\ egoNodes[i].nodes[j].x = 25
         /\ egoNodes[i].nodes[j].y = egoNodes[i].size.h - 25
    /\ \E j \in DOMAIN egoNodes[i].nodes :
         /\ egoNodes[i].nodes[j].fx # Unpinned
         /\ egoNodes[i].nodes[j].x = egoNodes[i].size.w \div 2

\* local-graph simulation i is running
EgoRunning(i) == \E e \in egoSims : e.id = i

\* C25: every local-graph simulation that runs is stopped in the end, and
\* is not running once its 8 s timer has fired, whatever the user selects
\* or toggles meanwhile and whether or not it has cooled down.
C25_EgoEventuallyStopped ==
  /\ \A i \in 1..MaxEgo : EgoRunning(i) ~> ~EgoRunning(i)
  /\ [](\A i \in 1..MaxEgo :
          EgoRunning(i) => [kind |-> "stop", ego |-> i] \in egoTimers)

\* C25 happened: a second simulation was created while the first was still
\* running, and both have been stopped: their timers have fired
C25_Witness ==
  /\ egoSeq = 2
  /\ egoSims = {}
  /\ egoTimers = {}

\* the selected node has no neighbour in the loaded graph
IsolatedSelected ==
  /\ graphData.gen # 0
  /\ selectedNode # NoNode
  /\ ConnCount(EgoNetwork(graphData, selectedNode.id)) = 0

\* C26: while the selected node has no neighbours no local-graph simulation
\* and no timer of one is started, and the local graph can be opened for
\* it and then shows the single centred node with the no-connections caption.
C26_IsolatedNodeShownAlone ==
  /\ [][IsolatedSelected /\ IsolatedSelected'
          => egoSeq' = egoSeq /\ egoTimers' \subseteq egoTimers]_vars
  /\ [](IsolatedSelected /\ Settled
          => /\ CanToggleLocalGraph(Cur)
             /\ showLocalGraph => localSvg = SingleNodeSvg)

\* the step is a click on element j of the local graph of simulation i
EgoClicked(i, j) ==
  /\ View(Cur) = "main"
  /\ localSvg = LocalGraphSvg(i)
  /\ egoNodes[i].nodes[j].id # egoNodes[i].center
  /\ Pass(FocusOnNode(Commit(Cur), egoNodes[i].nodes[j].id))

\* the click selected node m and started a focus on it
EgoClickSelects ==
  \A i \in DOMAIN egoNodes :
    \A j \in DOMAIN egoNodes[i].nodes :
      EgoClicked(i, j) =>
        /\ selectedNode'.id = egoNodes[i].nodes[j].id
        /\ transition'.active
        /\ transition'.to.node = egoNodes[i].nodes[j].id

\* the node selected from the local graph is shown with its ego network
EgoClickShowsNetwork ==
  (/\ Settled
   /\ View(Cur) = "main"
   /\ selectedNode.origin = "data"
   /\ FindById(graphData.nodes, selectedNode.id) # <<>>)
    => connectedNodes = EgoNetwork(graphData, selectedNode.id)

\* C27: a click on a neighbour m in the local graph selects m and starts a
\* focus on m, and once the renders it causes are done the connections shown
\* are the ego network of m, at every step of a chain of such clicks.
C27_EgoClickReselects == [][EgoClickSelects]_vars /\ []EgoClickShowsNetwork

\* C28: whatever the local-graph simulations did (they were created, ticked,
\* released their pin, were stopped), the nodes and edges of graphData are
\* those of the document that was loaded, and the nodes of the main
\* simulation carry no position or pin of a local graph.
C28_EgoLeavesModelAlone ==
  /\ graphData.gen # 0 =>
       [nodes |-> graphData.nodes, edges |-> graphData.edges] \in Docs
  /\ simNodes # <<>> => \E doc \in Docs : simNodes = doc.nodes

\* C28 happened: a local graph is displayed whose simulation has ticked (a
\* neighbour was clamped to the margin), released its pin and was stopped
C28_Witness ==
  \E i \in DOMAIN egoNodes :
    /\ graphData.gen # 0
    /\ simNodes # <<>>
    /\ localSvg = LocalGraphSvg(i)
    /\ ~EgoRunning(i)
    /\ EgoTimersOf(i) \cap egoTimers = {}
    /\ \E j \in DOMAIN egoNodes[i].nodes :
         /\ egoNodes[i].nodes[j].id = selectedNode.id
         /\ egoNodes[i].nodes[j].fx = Unpinned
    /\ \E j \in DOMAIN egoNodes[i].nodes :
         /\ egoNodes[i].nodes[j].id # selectedNode.id
         /\ egoNodes[i].nodes[j].x = EgoMargin

\* C29: every circle of the main graph whose node has its id in the
\* highlight set is filled with the highlight colour, whichever node is
\* selected, if any.
C29_HighlightedDespiteSelection ==
  \A i \in DOMAIN fill :
    simNodes[i].id \in Range(highlightPapers) => fill[i] = HighlightColour

\* C30: when the graph that was loaded has no nodes the component shows the
\* no-data view, and nothing is drawn, positioned, selected or focused.
C30_EmptyGraphIsNoData ==
  (graphData.gen # 0 /\ graphData.nodes = <<>> /\ ~loading /\ ~error)
    => /\ View(Cur) = "nodata"
       /\ fill = <<>>
       /\ layout = "initial"
       /\ selectedNode = NoNode
       /\ ~transition.active
       /\ focusTimers = {}

\* C31: the component asks for the graph once when it is mounted; every
\* later request is made by the reload button or the retry button.
C31_LoadedOncePerView ==
  [][loadSeq' # loadSeq => (Reload \/ Retry) /\ loadSeq' = loadSeq + 1]_vars

\* C33: with a deep link and no user input the view comes to rest.  Once
\* the node of the deep link is the selected node, the render of one more
\* selection of it by the init effect is the last: the effect does not run
\* and select again (a step that would repeat for ever), the simulation is
\* not created again and no further focus timer is set.
C33_DeepLinkComesToRest ==
  [][(/\ graphData' = graphData
      /\ queue.sel # <<>>
      /\ selectedNode # NoNode
      /\ selectedNode.id = queue.sel[1].id)
       => /\ queue.sel' = <<>>
          /\ simulationRef' = simulationRef
          /\ focusTimers' \subseteq focusTimers]_vars

\* C34: a node the user clicks after the deep link stays the selection: the
\* render of the click leaves no selection of another node to be rendered
\* next, so the selection that settles is the clicked node.
C34_UserSelectionKept ==
  [][ClickNode => \/ queue'.sel = <<>>
                  \/ queue'.sel[1].id = selectedNode'.id]_vars

\* C35: when the focus animation a click on a circle started completes, the
\* zoom container that is rendered shows the transform the animation
\* reached, the one d3.zoom keeps on the <svg>.
C35_ClickFocusMovesContainer ==
  [][(/\ transition.active
      /\ transition.to.form = "centre of captured size"
      /\ ~transition'.active
      /\ zoomT' = transition.to)
       => containerT' = zoomT']_vars

\* C36: once the component is unmounted no main simulation is running, and
\* no timer that was pending changes a simulation: the callback of a resize
\* that happened shortly before neither restarts the stopped simulation nor
\* gives it a new centre.
C36_TeardownIsFinal ==
  /\ [](~mounted => running = {})
  /\ [][~mounted => centerForce' = centerForce]_vars

\* C38: whenever the error view is displayed no main simulation is running,
\* also when the load that failed was a reload of a graph shown before.
C38_ErrorViewHasNoSimulation == View(Cur) = "error" => running = {}

\* C37: while a request for the graph is in flight the component is loading
\* (the flag is set, or its update is about to be rendered), and once all
\* requests have completed without an error the graph installed is the
\* response of the request issued last.
C37_OverlappingLoads ==
  /\ requests # {} => loading \/ queue.ld
  /\ (requests = {} /\ ~error /\ graphData.gen # 0) => graphData.gen = loadSeq

\* C39: the nodes of every local-graph simulation have pairwise distinct
\* ids: the selected node and each neighbour once, however many edges join
\* them and in whichever direction.
C39_EgoNodesDistinct ==
  \A i \in DOMAIN egoNodes :
    \A j, k \in DOMAIN egoNodes[i].nodes :
      egoNodes[i].nodes[j].id = egoNodes[i].nodes[k].id => j = k

\* C40: when a node of the loaded graph has the focus id of the deep link as
\* its id, the deep link selects that node and focuses on it, wherever it
\* stands among the nodes and whichever nodes have that id as paper_id.
C40_DeepLinkPrefersId ==
  FindById(graphData.nodes, focusNodeId) # <<>>
    => /\ queue.sel # <<>> => queue.sel[1].id = focusNodeId
       /\ \A timer \in focusTimers :
            (timer.kind = "deep" /\ timer.sim = simulationRef)
              => timer.node = focusNodeId

====
